---- MODULE Spec2Model ----
(***************************************************************************)
(* Model of the encrypted-span handling of script/utils.py: the tag        *)
(* grammar (the two regular expressions), base64 and UTF-8 as the code     *)
(* uses them, AES-GCM as the cryptography package presents it, and the     *)
(* functions decrypt_value, decrypt_content_tags, strip_encrypted_tags and *)
(* decrypt_or_strip_content.                                               *)
(*                                                                         *)
(* Text is a sequence of code points (integers), bytes are integers        *)
(* 0..255.  A document is built from fragments (tags, payloads, literal    *)
(* text); the functions work on the flattened characters only.             *)
(***************************************************************************)
EXTENDS Integers, Sequences, FiniteSets, TLC

(***************************************************************************)
(* Bounds of the model.                                                    *)
(***************************************************************************)
\* the largest number of segments of an input document
MaxSegs == 3

(***************************************************************************)
(* Program constants.                                                      *)
(***************************************************************************)
KEY_LENGTH == 32
NONCE_LENGTH == 12
\* the authentication tag AESGCM appends to the ciphertext
GCM_TAG_LENGTH == 16

(***************************************************************************)
(* Characters.  Printable[i] is the character with code point 31 + i (the  *)
(* grave accent, which a string cannot hold, is spelled out).              *)
(***************************************************************************)
Printable ==
    << " ", "!", "\"", "#", "$", "%", "&", "'", "(", ")", "*", "+", ",", "-", ".", "/",
       "0", "1", "2", "3", "4", "5", "6", "7", "8", "9", ":", ";", "<", "=", ">", "?",
       "@", "A", "B", "C", "D", "E", "F", "G", "H", "I", "J", "K", "L", "M", "N", "O",
       "P", "Q", "R", "S", "T", "U", "V", "W", "X", "Y", "Z", "[", "\\", "]", "^", "_",
       "grave", "a", "b", "c", "d", "e", "f", "g", "h", "i", "j", "k", "l", "m", "n", "o",
       "p", "q", "r", "s", "t", "u", "v", "w", "x", "y", "z", "{", "|", "}", "~" >>

Ord(c) == 31 + (CHOOSE i \in 1..Len(Printable) : Printable[i] = c)

\* the text whose characters are the one-character strings of t
Text(t) == [i \in 1..Len(t) |-> Ord(t[i])]

CH_LT == Ord("<")
CH_GT == Ord(">")
CH_EQ == Ord("=")
CH_QUOTE == Ord("\"")
CH_PLUS == Ord("+")
CH_SLASH == Ord("/")
CH_0 == Ord("0")
CH_9 == Ord("9")
CH_UPPER_A == Ord("A")
CH_UPPER_Z == Ord("Z")
CH_LOWER_A == Ord("a")
CH_LOWER_Z == Ord("z")

IsZero(c) == c = CH_0

\* \d, for ASCII text
IsDigit(c) == c >= CH_0 /\ c <= CH_9

\* the characters str.strip() removes and \s matches (str.isspace)
IsSpace(c) ==
    \/ c = 32 \/ (c >= 9 /\ c <= 13) \/ (c >= 28 /\ c <= 31) \/ c = 133 \/ c = 160
    \/ c = 5760 \/ (c >= 8192 /\ c <= 8202) \/ c = 8232 \/ c = 8233 \/ c = 8239
    \/ c = 8287 \/ c = 12288

\* the first position >= i of s that is not in the class, or Len(s) + 1; class[k]
\* says whether the character at position k is in it
RunEnd(s, i, class) ==
    IF i > Len(s) THEN i
    ELSE CHOOSE j \in i..(Len(s) + 1) :
            /\ j = Len(s) + 1 \/ ~class[j]
            /\ \A k \in i..(j - 1) : class[k]

\* the last position <= j of s that is not in the class, or 0
RunStart(s, j, class) ==
    IF j < 1 THEN j
    ELSE CHOOSE i \in 0..j :
            /\ i = 0 \/ ~class[i]
            /\ \A k \in (i + 1)..j : class[k]

\* the positions of s that hold whitespace
Spaces(s) == [k \in 1..Len(s) |-> IsSpace(s[k])]

\* str.strip()
Strip(s) == SubSeq(s, RunEnd(s, 1, Spaces(s)), RunStart(s, Len(s), Spaces(s)))

\* s[i:].startswith(p), positions from 1
HasPrefixAt(s, i, p) == i >= 1 /\ i + Len(p) - 1 <= Len(s) /\ SubSeq(s, i, i + Len(p) - 1) = p

StartsWith(s, p) == HasPrefixAt(s, 1, p)

EndsWith(s, p) == HasPrefixAt(s, Len(s) - Len(p) + 1, p)

\* p in s
Contains(s, p) == \E i \in 1..Len(s) : s[i] = p[1] /\ HasPrefixAt(s, i, p)

\* [^<]
NotLt(c) == c # CH_LT

\* the first position >= i holding '<', or Len(s) + 1
NextLt(s, i) == RunEnd(s, i, [k \in 1..Len(s) |-> NotLt(s[k])])

\* the first position >= i not holding a digit, or Len(s) + 1
DigitsEnd(s, i) == RunEnd(s, i, [k \in 1..Len(s) |-> IsDigit(s[k])])

\* the first position >= i not holding whitespace, or Len(s) + 1
SpacesEnd(s, i) == RunEnd(s, i, Spaces(s))

\* the concatenation of ss[lo], ..., ss[hi]
RECURSIVE FlattenRange(_, _, _)
FlattenRange(ss, lo, hi) ==
    IF lo > hi THEN <<>>
    ELSE IF lo = hi THEN ss[lo]
    ELSE FlattenRange(ss, lo, (lo + hi) \div 2) \o FlattenRange(ss, (lo + hi) \div 2 + 1, hi)

Flatten(ss) == FlattenRange(ss, 1, Len(ss))

(***************************************************************************)
(* base64, as base64.b64encode / base64.b64decode (validate=False).        *)
(***************************************************************************)
\* the value of an alphabet character, 64 for a character outside the alphabet
B64Val(c) ==
    IF c >= CH_UPPER_A /\ c <= CH_UPPER_Z THEN c - CH_UPPER_A
    ELSE IF c >= CH_LOWER_A /\ c <= CH_LOWER_Z THEN c - CH_LOWER_A + 26
    ELSE IF IsDigit(c) THEN c - CH_0 + 52
    ELSE IF c = CH_PLUS THEN 62
    ELSE IF c = CH_SLASH THEN 63
    ELSE 64

B64Char(v) ==
    IF v < 26 THEN CH_UPPER_A + v
    ELSE IF v < 52 THEN CH_LOWER_A + (v - 26)
    ELSE IF v < 62 THEN CH_0 + (v - 52)
    ELSE IF v = 62 THEN CH_PLUS
    ELSE CH_SLASH

InAlphabet(c) == B64Val(c) < 64

\* base64.b64encode(b).decode()
B64Encode(b) ==
    LET n == Len(b)
        At(i) == IF i <= n THEN b[i] ELSE 0
        Quad(q, r) ==
            LET b1 == At(3 * q + 1)
                b2 == At(3 * q + 2)
                b3 == At(3 * q + 3)
            IN  CASE r = 0 -> B64Char(b1 \div 4)
                  [] r = 1 -> B64Char((b1 % 4) * 16 + (b2 \div 16))
                  [] r = 2 -> IF 3 * q + 2 > n THEN CH_EQ
                              ELSE B64Char((b2 % 16) * 4 + (b3 \div 64))
                  [] r = 3 -> IF 3 * q + 3 > n THEN CH_EQ ELSE B64Char(b3 % 64)
    IN  [k \in 1..(4 * ((n + 2) \div 3)) |-> Quad((k - 1) \div 4, (k - 1) % 4)]

B64Error == [ok |-> FALSE, bytes |-> <<>>]

\* the 3 * m bytes of the m quads of alphabet characters that start at position i
QuadBytes(s, i, m) ==
    [k \in 1..(3 * m) |->
        LET q == i + 4 * ((k - 1) \div 3)
            r == (k - 1) % 3
        IN  CASE r = 0 -> B64Val(s[q]) * 4 + (B64Val(s[q + 1]) \div 16)
              [] r = 1 -> (B64Val(s[q + 1]) % 16) * 16 + (B64Val(s[q + 2]) \div 4)
              [] r = 2 -> (B64Val(s[q + 2]) % 4) * 64 + B64Val(s[q + 3])]

\* the whole quads in the run of alphabet characters that starts at position i
WholeQuads(s, i) == (RunEnd(s, i, [k \in 1..Len(s) |-> InAlphabet(s[k])]) - i) \div 4

\* binascii.a2b_base64 without strict_mode: characters outside the alphabet are
\* skipped, a pad that completes a quad ends the parse, and leftover characters of
\* an incomplete quad are an error
RECURSIVE A2BBase64(_, _, _, _, _, _)
A2BBase64(s, i, quad, left, pads, out) ==
    IF i > Len(s)
    THEN IF quad # 0 THEN B64Error ELSE [ok |-> TRUE, bytes |-> out]
    ELSE IF quad = 0 /\ WholeQuads(s, i) > 0
    THEN \* a run of whole quads, taken in one step
         A2BBase64(s, i + 4 * WholeQuads(s, i), 0, 0, 0,
                   out \o QuadBytes(s, i, WholeQuads(s, i)))
    ELSE IF s[i] = CH_EQ
    THEN IF quad >= 2 /\ quad + pads + 1 >= 4
         THEN [ok |-> TRUE, bytes |-> out]
         ELSE A2BBase64(s, i + 1, quad, left, IF quad >= 2 THEN pads + 1 ELSE pads, out)
    ELSE IF B64Val(s[i]) >= 64
    THEN A2BBase64(s, i + 1, quad, left, pads, out)
    ELSE LET v == B64Val(s[i])
         IN  CASE quad = 0 -> A2BBase64(s, i + 1, 1, v, 0, out)
               [] quad = 1 ->
                    A2BBase64(s, i + 1, 2, v % 16, 0, Append(out, left * 4 + (v \div 16)))
               [] quad = 2 ->
                    A2BBase64(s, i + 1, 3, v % 4, 0, Append(out, left * 16 + (v \div 4)))
               [] quad = 3 ->
                    A2BBase64(s, i + 1, 0, 0, 0, Append(out, left * 64 + v))

\* base64.b64decode(s) of a str: a non-ASCII character is an error
B64Decode(s) ==
    IF \E i \in 1..Len(s) : s[i] > 127 THEN B64Error ELSE A2BBase64(s, 1, 0, 0, 0, <<>>)

(***************************************************************************)
(* UTF-8, as str.encode() and bytes.decode("utf-8").                       *)
(***************************************************************************)
Utf8EncodeChar(c) ==
    IF c < 128 THEN <<c>>
    ELSE IF c < 2048 THEN <<192 + (c \div 64), 128 + (c % 64)>>
    ELSE IF c < 65536
    THEN <<224 + (c \div 4096), 128 + ((c \div 64) % 64), 128 + (c % 64)>>
    ELSE <<240 + (c \div 262144), 128 + ((c \div 4096) % 64), 128 + ((c \div 64) % 64),
           128 + (c % 64)>>

Utf8Encode(t) == Flatten([i \in 1..Len(t) |-> Utf8EncodeChar(t[i])])

\* whether byte i of b exists and is a continuation byte
IsCont(b, i) == i >= 1 /\ i <= Len(b) /\ b[i] >= 128 /\ b[i] <= 191

\* the number of bytes of the sequence a lead byte starts, 0 for a byte that starts none
Utf8SeqLen(lead) ==
    IF lead < 128 THEN 1
    ELSE IF lead >= 194 /\ lead <= 223 THEN 2
    ELSE IF lead >= 224 /\ lead <= 239 THEN 3
    ELSE IF lead >= 240 /\ lead <= 244 THEN 4
    ELSE 0

\* the code point of the sequence that starts at byte i
Utf8CodePoint(b, i) ==
    CASE Utf8SeqLen(b[i]) = 1 -> b[i]
      [] Utf8SeqLen(b[i]) = 2 -> (b[i] - 192) * 64 + (b[i + 1] - 128)
      [] Utf8SeqLen(b[i]) = 3 ->
            (b[i] - 224) * 4096 + (b[i + 1] - 128) * 64 + (b[i + 2] - 128)
      [] Utf8SeqLen(b[i]) = 4 ->
            (b[i] - 240) * 262144 + (b[i + 1] - 128) * 4096 + (b[i + 2] - 128) * 64
                + (b[i + 3] - 128)

\* byte i starts a complete sequence of a code point in its shortest form that is
\* no surrogate and at most U+10FFFF
Utf8StartOk(b, i) ==
    /\ Utf8SeqLen(b[i]) > 0
    /\ \A k \in 1..(Utf8SeqLen(b[i]) - 1) : IsCont(b, i + k)
    /\ Utf8SeqLen(b[i]) = 3 =>
          Utf8CodePoint(b, i) >= 2048 /\ ~(Utf8CodePoint(b, i) >= 55296 /\ Utf8CodePoint(b, i) <= 57343)
    /\ Utf8SeqLen(b[i]) = 4 =>
          Utf8CodePoint(b, i) >= 65536 /\ Utf8CodePoint(b, i) <= 1114111

\* continuation byte i belongs to the sequence of a lead byte before it
Utf8ContOk(b, i) ==
    \E k \in 1..3 :
        /\ i - k >= 1
        /\ ~IsCont(b, i - k)
        /\ Utf8SeqLen(b[i - k]) > k
        /\ \A m \in 1..(k - 1) : IsCont(b, i - m)

Utf8Error == [ok |-> FALSE, text |-> <<>>]

\* bytes.decode("utf-8"): every byte starts a valid sequence or continues one
Utf8Decode(b) ==
    IF \A i \in 1..Len(b) : IF IsCont(b, i) THEN Utf8ContOk(b, i) ELSE Utf8StartOk(b, i)
    THEN [ok |-> TRUE,
          text |-> Flatten([i \in 1..Len(b) |->
                      IF IsCont(b, i) THEN <<>> ELSE <<Utf8CodePoint(b, i)>>])]
    ELSE Utf8Error

(***************************************************************************)
(* AES-256-GCM as cryptography's AESGCM presents it: encrypt returns the   *)
(* ciphertext (as long as the plaintext, the plaintext combined with a     *)
(* keystream of key and nonce) followed by a 16-byte tag over key, nonce   *)
(* and ciphertext; decrypt recomputes the tag and raises InvalidTag when   *)
(* it differs or the data is shorter than a tag.                           *)
(***************************************************************************)
KeyStream(key, nonce, i) ==
    (key[((i - 1) % KEY_LENGTH) + 1] + 3 * nonce[((i - 1) % NONCE_LENGTH) + 1] + 5 * i) % 256

\* the sum of i * b[i] for i in lo..hi, modulo 256
RECURSIVE WeightedSum(_, _, _)
WeightedSum(b, lo, hi) ==
    IF lo > hi THEN 0
    ELSE IF lo = hi THEN (lo * b[lo]) % 256
    ELSE (WeightedSum(b, lo, (lo + hi) \div 2) + WeightedSum(b, (lo + hi) \div 2 + 1, hi)) % 256

GcmTag(key, nonce, ct) ==
    LET h == WeightedSum(ct, 1, Len(ct))
    IN  [j \in 1..GCM_TAG_LENGTH |->
            (key[j] + 7 * key[j + GCM_TAG_LENGTH] + nonce[((j - 1) % NONCE_LENGTH) + 1]
                + (2 * j + 1) * h + Len(ct)) % 256]

\* AESGCM(key).encrypt(nonce, data, None)
AesGcmEncrypt(key, nonce, data) ==
    LET ct == [i \in 1..Len(data) |-> (data[i] + KeyStream(key, nonce, i)) % 256]
    IN  ct \o GcmTag(key, nonce, ct)

\* AESGCM(key).decrypt(nonce, data, None)
AesGcmDecrypt(key, nonce, data) ==
    IF Len(data) < GCM_TAG_LENGTH THEN [ok |-> FALSE, bytes |-> <<>>]
    ELSE LET ct == SubSeq(data, 1, Len(data) - GCM_TAG_LENGTH)
             tag == SubSeq(data, Len(data) - GCM_TAG_LENGTH + 1, Len(data))
         IN  IF tag # GcmTag(key, nonce, ct) THEN [ok |-> FALSE, bytes |-> <<>>]
             ELSE [ok |-> TRUE,
                   bytes |-> [i \in 1..Len(ct) |->
                                (ct[i] + 256 - KeyStream(key, nonce, i)) % 256]]

(***************************************************************************)
(* The tag grammar.                                                        *)
(***************************************************************************)
ENCRYPTION_VERSION == Text(<<"1">>)

\* '<encrypted v="', the marker has_encrypted_tags and is_encrypted look for
LIT_MARKER == Text(<<"<", "e", "n", "c", "r", "y", "p", "t", "e", "d", " ", "v", "=", "\"">>)
\* '<encrypted'
LIT_OPEN == Text(<<"<", "e", "n", "c", "r", "y", "p", "t", "e", "d">>)
\* 'v="'
LIT_V == Text(<<"v", "=", "\"">>)
\* '">'
LIT_QGT == Text(<<"\"", ">">>)
\* '</encrypted>'
LIT_CLOSE == Text(<<"<", "/", "e", "n", "c", "r", "y", "p", "t", "e", "d", ">">>)

NoMatch == [found |-> FALSE, start |-> 0, stop |-> 0, version |-> <<>>, payload |-> <<>>]

\* VERSIONED_TAG_PATTERN = r'<encrypted v="(\d+)">([^<]*)</encrypted>' tried at
\* position i: the match is s[start .. stop - 1].  \d+ and [^<]* are greedy and
\* the literal after each starts with a character they exclude, so there is one way
\* to match.
MatchVersionedAt(s, i) ==
    IF ~HasPrefixAt(s, i, LIT_MARKER) THEN NoMatch
    ELSE LET d0 == i + Len(LIT_MARKER)
             d1 == DigitsEnd(s, d0)
         IN  IF d1 = d0 \/ ~HasPrefixAt(s, d1, LIT_QGT) THEN NoMatch
             ELSE LET p0 == d1 + Len(LIT_QGT)
                      p1 == NextLt(s, p0)
                  IN  IF ~HasPrefixAt(s, p1, LIT_CLOSE) THEN NoMatch
                      ELSE [found |-> TRUE, start |-> i, stop |-> p1 + Len(LIT_CLOSE),
                            version |-> SubSeq(s, d0, d1 - 1),
                            payload |-> SubSeq(s, p0, p1 - 1)]

\* the position after the optional group (?:\s+v="\d+")? tried at position j
\* (j itself when the group does not match there)
VersionGroupEnd(s, j) ==
    LET k == SpacesEnd(s, j)
        d0 == k + Len(LIT_V)
        d1 == DigitsEnd(s, d0)
    IN  IF k > j /\ HasPrefixAt(s, k, LIT_V) /\ d1 > d0 /\ d1 <= Len(s) /\ s[d1] = CH_QUOTE
        THEN d1 + 1
        ELSE j

\* ANY_ENCRYPTED_TAG_PATTERN = r'<encrypted(?:\s+v="\d+")?>([^<]*)</encrypted>'
\* tried at position i.  The group starts with whitespace and the literal after it
\* is '>', so skipping a group that matches cannot lead to a match.
MatchAnyAt(s, i) ==
    IF ~HasPrefixAt(s, i, LIT_OPEN) THEN NoMatch
    ELSE LET g == VersionGroupEnd(s, i + Len(LIT_OPEN))
         IN  IF g > Len(s) \/ s[g] # CH_GT THEN NoMatch
             ELSE LET p0 == g + 1
                      p1 == NextLt(s, p0)
                  IN  IF ~HasPrefixAt(s, p1, LIT_CLOSE) THEN NoMatch
                      ELSE [found |-> TRUE, start |-> i, stop |-> p1 + Len(LIT_CLOSE),
                            version |-> <<>>,
                            payload |-> SubSeq(s, p0, p1 - 1)]

\* is_encrypted(value)
is_encrypted(value) ==
    StartsWith(Strip(value), LIT_MARKER) /\ EndsWith(Strip(value), LIT_CLOSE)

\* a variant that looks for '<encrypted' alone
has_encrypted_tags_AnyTag(content) == Contains(content, LIT_OPEN)

\* has_encrypted_tags(content)
has_encrypted_tags(content) == Contains(content, LIT_MARKER)

(***************************************************************************)
(* pattern.sub(repl, s): the matches are the leftmost ones, left to right, *)
(* without overlap; each is replaced, and the replacement text is not      *)
(* scanned again.  Both patterns start with '<', so the scan for the next  *)
(* match goes from one '<' to the next.                                    *)
(***************************************************************************)
RECURSIVE FindAllVersionedFrom(_, _)
\* the scan at a '<' at position j, where VERSIONED_TAG_PATTERN matches as m says
FindAllVersionedStep(s, j, m) ==
    IF m.found THEN <<m>> \o FindAllVersionedFrom(s, m.stop)
    ELSE FindAllVersionedFrom(s, j + 1)

\* the scan at position j, a '<' or the end of s
FindAllVersionedAt(s, j) ==
    IF j > Len(s) THEN <<>> ELSE FindAllVersionedStep(s, j, MatchVersionedAt(s, j))

\* VERSIONED_TAG_PATTERN.finditer(s) from position i on
FindAllVersionedFrom(s, i) == FindAllVersionedAt(s, NextLt(s, i))

RECURSIVE FindAllAnyFrom(_, _)
\* the scan at a '<' at position j, where ANY_ENCRYPTED_TAG_PATTERN matches as m says
FindAllAnyStep(s, j, m) ==
    IF m.found THEN <<m>> \o FindAllAnyFrom(s, m.stop)
    ELSE FindAllAnyFrom(s, j + 1)

\* the scan at position j, a '<' or the end of s
FindAllAnyAt(s, j) ==
    IF j > Len(s) THEN <<>> ELSE FindAllAnyStep(s, j, MatchAnyAt(s, j))

\* ANY_ENCRYPTED_TAG_PATTERN.finditer(s) from position i on
FindAllAnyFrom(s, i) == FindAllAnyAt(s, NextLt(s, i))

\* the text of s between match k - 1 (or the start of s) and match k
Before(s, ms, k) == SubSeq(s, IF k = 1 THEN 1 ELSE ms[k - 1].stop, ms[k].start - 1)

\* the text of s after the last match
AfterLast(s, ms) == SubSeq(s, IF ms = <<>> THEN 1 ELSE ms[Len(ms)].stop, Len(s))

\* s with match ms[k] replaced by repl[k], for every k
Substituted(s, ms, repl) ==
    Flatten([k \in 1..Len(ms) |-> Before(s, ms, k) \o repl[k]]) \o AfterLast(s, ms)

(***************************************************************************)
(* The functions.  A key of None is NoKey.  An outcome carries what the    *)
(* caller can observe: the text returned or the error raised, the          *)
(* was_decrypted flag, the warnings emitted, and the decode steps taken    *)
(* (events).                                                               *)
(***************************************************************************)
NoKey == <<>>

Outcome(raised, text, was_decrypted, error, warnings, events) ==
    [raised |-> raised, text |-> text, was_decrypted |-> was_decrypted, error |-> error,
     warnings |-> warnings, events |-> events]

Returned(value, events) == Outcome(FALSE, value, FALSE, "", <<>>, events)

Raised(error, events) == Outcome(TRUE, <<>>, FALSE, error, <<>>, events)

\* decrypt_value, line 499: plaintext.decode("utf-8")
DecodePlaintext(decoded) ==
    IF ~decoded.ok
    THEN Raised("UnicodeDecodeError",
                <<"decrypt_value", "b64decode", "aesgcm.decrypt", "utf8.decode">>)
    ELSE Returned(decoded.text,
                  <<"decrypt_value", "b64decode", "aesgcm.decrypt", "utf8.decode">>)

\* a variant that swallows the failure of aesgcm.decrypt
DecryptedBytes_Swallowed(plaintext) == DecodePlaintext(Utf8Decode(plaintext.bytes))

\* decrypt_value, lines 494-499: the outcome of aesgcm.decrypt
DecryptedBytes(plaintext) ==
    IF ~plaintext.ok
    THEN Raised("Decryption failed: invalid key or corrupted data",
                <<"decrypt_value", "b64decode", "aesgcm.decrypt">>)
    ELSE DecodePlaintext(Utf8Decode(plaintext.bytes))

\* a variant that splits the nonce off one byte late
DecryptCombined_LateSplit(key, combined) ==
    IF ~combined.ok
    THEN Raised("Failed to decode encrypted value", <<"decrypt_value", "b64decode">>)
    ELSE IF Len(combined.bytes) < NONCE_LENGTH
    THEN Raised("Encrypted value too short", <<"decrypt_value", "b64decode">>)
    ELSE DecryptedBytes(AesGcmDecrypt(key,
                            SubSeq(combined.bytes, 1, NONCE_LENGTH),
                            SubSeq(combined.bytes, NONCE_LENGTH + 2, Len(combined.bytes))))

\* decrypt_value, lines 480-497: the outcome of base64.b64decode
DecryptCombined(key, combined) ==
    IF ~combined.ok
    THEN Raised("Failed to decode encrypted value", <<"decrypt_value", "b64decode">>)
    ELSE IF Len(combined.bytes) < NONCE_LENGTH
    THEN Raised("Encrypted value too short", <<"decrypt_value", "b64decode">>)
    ELSE DecryptedBytes(AesGcmDecrypt(key,
                            SubSeq(combined.bytes, 1, NONCE_LENGTH),
                            SubSeq(combined.bytes, NONCE_LENGTH + 1, Len(combined.bytes))))

\* a variant that compares versions as numbers, so that "01" is version 1
DecryptMatch_Numeric(key, encrypted_value, match) ==
    IF ~match.found THEN Returned(encrypted_value, <<"decrypt_value">>)
    ELSE IF SubSeq(match.version,
                   RunEnd(match.version, 1,
                          [k \in 1..Len(match.version) |-> IsZero(match.version[k])]),
                   Len(match.version)) # ENCRYPTION_VERSION
    THEN Raised("Unsupported encryption version", <<"decrypt_value">>)
    ELSE DecryptCombined(key, B64Decode(match.payload))

\* decrypt_value, lines 469-481: the outcome of VERSIONED_TAG_PATTERN.match
DecryptMatch(key, encrypted_value, match) ==
    IF ~match.found THEN Returned(encrypted_value, <<"decrypt_value">>)
    ELSE IF match.version # ENCRYPTION_VERSION
    THEN Raised("Unsupported encryption version", <<"decrypt_value">>)
    ELSE DecryptCombined(key, B64Decode(match.payload))

\* a variant that hands back the trimmed input when it is no span
decrypt_value_Trimmed(crypto, key, encrypted_value) ==
    IF ~crypto
    THEN Raised("cryptography library not available for decryption", <<"decrypt_value">>)
    ELSE DecryptMatch(key, Strip(encrypted_value), MatchVersionedAt(Strip(encrypted_value), 1))

\* decrypt_value(key, encrypted_value), with CRYPTO_AVAILABLE = crypto
decrypt_value(crypto, key, encrypted_value) ==
    IF ~crypto
    THEN Raised("cryptography library not available for decryption", <<"decrypt_value">>)
    ELSE DecryptMatch(key, encrypted_value, MatchVersionedAt(Strip(encrypted_value), 1))

\* a variant that strips the tag of a span that does not decrypt
Replaced_Stripped(full_tag, r) ==
    IF r.raised
    THEN Outcome(FALSE, MatchVersionedAt(full_tag, 1).payload, FALSE, "",
                 << <<"Failed to decrypt tag: ", r.error>> >>, r.events)
    ELSE r

\* a variant that lets the error of decrypt_value through
Replaced_Propagated(full_tag, r) == r

\* the replacer of decrypt_content_tags: what it returns for full_tag when
\* decrypt_value has had the outcome r
Replaced(full_tag, r) ==
    IF r.raised
    THEN Outcome(FALSE, full_tag, FALSE, "", << <<"Failed to decrypt tag: ", r.error>> >>,
                 r.events)
    ELSE r

\* the replacer of decrypt_content_tags, applied to one match
replacer(crypto, key, full_tag) == Replaced(full_tag, decrypt_value(crypto, key, full_tag))

\* the replacer's outcomes for the matches ms of s, in order
Replacements(crypto, key, s, ms) ==
    [k \in 1..Len(ms) |-> replacer(crypto, key, SubSeq(s, ms[k].start, ms[k].stop - 1))] \o <<>>

\* VERSIONED_TAG_PATTERN.sub(replacer, s), given the matches and the replacer's outcomes
SubVersioned(s, ms, rs) ==
    Outcome(FALSE, Substituted(s, ms, [k \in 1..Len(ms) |-> rs[k].text]), FALSE, "",
            Flatten([k \in 1..Len(ms) |-> rs[k].warnings]),
            Flatten([k \in 1..Len(ms) |-> rs[k].events]))

\* decrypt_content_tags, line 518
DecryptMatches(crypto, key, content, ms) ==
    SubVersioned(content, ms, Replacements(crypto, key, content, ms))

\* decrypt_content_tags(key, content); the replacer catches every exception, so the
\* call itself raises nothing
decrypt_content_tags(crypto, key, content) ==
    IF ~has_encrypted_tags(content) THEN Returned(content, <<>>)
    ELSE DecryptMatches(crypto, key, content, FindAllVersionedFrom(content, 1))

\* ANY_ENCRYPTED_TAG_PATTERN.sub(r"\1", s), given the matches
SubAny(s, ms) == Substituted(s, ms, [k \in 1..Len(ms) |-> ms[k].payload])

\* a variant that strips versioned spans only
strip_encrypted_tags_Versioned(content) == SubAny(content, FindAllVersionedFrom(content, 1))

\* strip_encrypted_tags(content)
strip_encrypted_tags(content) == SubAny(content, FindAllAnyFrom(content, 1))

\* a variant that reports whether the text changed
DecryptedOrStripped_IfChanged(content, r) ==
    IF ~r.raised THEN [r EXCEPT !.was_decrypted = (r.text # content)]
    ELSE Outcome(FALSE, strip_encrypted_tags(content), FALSE, "",
                 Append(r.warnings, <<"Decryption failed, stripping tags: ", r.error>>),
                 r.events)

\* decrypt_or_strip_content, lines 538-544: after decrypt_content_tags has had the
\* outcome r
DecryptedOrStripped(content, r) ==
    IF ~r.raised THEN [r EXCEPT !.was_decrypted = TRUE]
    ELSE Outcome(FALSE, strip_encrypted_tags(content), FALSE, "",
                 Append(r.warnings, <<"Decryption failed, stripping tags: ", r.error>>),
                 r.events)

\* a variant that returns the content as it is when there is no key
decrypt_or_strip_content_Kept(crypto, content, key) ==
    IF ~has_encrypted_tags(content) THEN Returned(content, <<>>)
    ELSE IF key # NoKey /\ crypto
    THEN DecryptedOrStripped(content, decrypt_content_tags(crypto, key, content))
    ELSE Returned(content, <<>>)

\* decrypt_or_strip_content(content, key)
decrypt_or_strip_content(crypto, content, key) ==
    IF ~has_encrypted_tags(content) THEN Returned(content, <<>>)
    ELSE IF key # NoKey /\ crypto
    THEN DecryptedOrStripped(content, decrypt_content_tags(crypto, key, content))
    ELSE Returned(strip_encrypted_tags(content), <<>>)

(***************************************************************************)
(* Inputs.  Keys and the encrypt helper are those of the tests.            *)
(***************************************************************************)
\* test_key = bytes(range(32))
K1 == [i \in 1..KEY_LENGTH |-> i - 1]
\* wrong_key = bytes(reversed(range(32)))
K2 == [i \in 1..KEY_LENGTH |-> KEY_LENGTH - i]

\* two values of os.urandom(12)
NONCE_A == [i \in 1..NONCE_LENGTH |-> (37 * i + 11) % 256]

NONCE_B == [i \in 1..NONCE_LENGTH |-> (91 * i + 200) % 256]

Nonces == {NONCE_A, NONCE_B}

\* base64(nonce || AESGCM(key).encrypt(nonce, data, None))
Payload(key, nonce, data) == B64Encode(nonce \o AesGcmEncrypt(key, nonce, data))

OpenTag(version) == LIT_MARKER \o version \o LIT_QGT

\* the tests' encrypt_value helper (_encrypt) with the nonce it drew and the key it is
\* given: '<encrypted v="1">' + payload + '</encrypted>'
encrypt_value(key, nonce, plaintext) ==
    OpenTag(ENCRYPTION_VERSION) \o Payload(key, nonce, Utf8Encode(plaintext)) \o LIT_CLOSE

\* a secret with a non-ASCII character: "cl" followed by e-acute
PLAIN_SECRET == Text(<<"c", "l">>) \o <<233>>
\* a secret that is itself the text of an encrypted span
PLAIN_NESTED == encrypt_value(K1, NONCE_A, PLAIN_SECRET)

\* byte i of b replaced by another byte
Altered(b, i) == [b EXCEPT ![i] = (b[i] + 1) % 256]

\* The fragments documents are made of.
FragmentText ==
    [ TXT        |-> Text(<<"a">>),
      UNI        |-> <<233, 8364, 128512>>,
      WS         |-> Text(<<" ">>),
      OV1        |-> OpenTag(Text(<<"1">>)),
      OV2        |-> OpenTag(Text(<<"2">>)),
      OV01       |-> OpenTag(Text(<<"0", "1">>)),
      OL         |-> LIT_OPEN \o Text(<<">">>),
      CL         |-> LIT_CLOSE,
      MK         |-> LIT_MARKER,
      B_GOOD     |-> Payload(K1, NONCE_A, Utf8Encode(PLAIN_SECRET)),
      B_OTHERKEY |-> Payload(K2, NONCE_A, Utf8Encode(PLAIN_SECRET)),
      B_NESTED   |-> Payload(K1, NONCE_A, Utf8Encode(PLAIN_NESTED)),
      B_TAMPERED |-> B64Encode(NONCE_A \o
                        Altered(AesGcmEncrypt(K1, NONCE_A, Utf8Encode(PLAIN_SECRET)), 1)),
      B_BADTAG   |-> B64Encode(NONCE_A \o
                        Altered(AesGcmEncrypt(K1, NONCE_A, Utf8Encode(PLAIN_SECRET)),
                                Len(Utf8Encode(PLAIN_SECRET)) + GCM_TAG_LENGTH)),
      B_BADUTF8  |-> Payload(K1, NONCE_A, <<99, 255>>),
      B_SHORT    |-> B64Encode(SubSeq(NONCE_A, 1, NONCE_LENGTH - 1)),
      B_BADB64   |-> Text(<<"a", "b", "c">>) ]

Fragments == DOMAIN FragmentText

\* the fragments that hold a '<'
TagFragments == {"OV1", "OV2", "OV01", "OL", "CL", "MK"}

\* The segments a document is a sequence of: literal text, whole spans, and the
\* loose pieces that nest spans or leave them unterminated.
SegmentFrags ==
    [ text      |-> <<"TXT">>,
      unicode   |-> <<"UNI">>,
      good      |-> <<"OV1", "B_GOOD", "CL">>,
      otherkey  |-> <<"OV1", "B_OTHERKEY", "CL">>,
      v2        |-> <<"OV2", "B_GOOD", "CL">>,
      legacy    |-> <<"OL", "TXT", "CL">>,
      nested    |-> <<"OV1", "B_NESTED", "CL">>,
      open      |-> <<"OV1">>,
      close     |-> <<"CL">>,
      marker    |-> <<"MK">>,
      v01       |-> <<"OV01", "B_GOOD", "CL">>,
      tampered  |-> <<"OV1", "B_TAMPERED", "CL">>,
      badtag    |-> <<"OV1", "B_BADTAG", "CL">>,
      badutf8   |-> <<"OV1", "B_BADUTF8", "CL">>,
      short     |-> <<"OV1", "B_SHORT", "CL">>,
      badb64    |-> <<"OV1", "B_BADB64", "CL">>,
      v2badb64  |-> <<"OV2", "B_BADB64", "CL">>,
      v2empty   |-> <<"OV2", "CL">>,
      padded    |-> <<"WS", "OV1", "B_GOOD", "CL", "WS">>,
      paddedlegacy |-> <<"WS", "OL", "TXT", "CL", "WS">> ]

\* the segments of documents of any length
DocSegments ==
    {"text", "unicode", "good", "otherkey", "v2", "legacy", "nested", "open", "close",
     "marker"}

\* the segments that occur only alone, as one value
ValueSegments ==
    {"v01", "v2badb64", "v2empty", "tampered", "badtag", "badutf8", "short", "badb64",
     "padded", "paddedlegacy"}

RECURSIVE SeqsUpTo(_, _)
SeqsUpTo(S, n) ==
    IF n = 0 THEN {<<>>}
    ELSE LET shorter == SeqsUpTo(S, n - 1)
         IN  shorter \cup {Append(q, x) : q \in shorter, x \in S}

SegmentSeqs == SeqsUpTo(DocSegments, MaxSegs) \cup {<<v>> : v \in ValueSegments}

FragsOf(segs) == Flatten([i \in 1..Len(segs) |-> SegmentFrags[segs[i]]])

TextOf(fs) == Flatten([i \in 1..Len(fs) |-> FragmentText[fs[i]]])

KeyOptions == {NoKey, K1, K2}

(***************************************************************************)
(* Keys: parse_key.                                                        *)
(***************************************************************************)
\* the string the hex test of parse_key looks its characters up in
HEX_DIGITS == Text(<< "0", "1", "2", "3", "4", "5", "6", "7", "8", "9",
                      "a", "b", "c", "d", "e", "f", "A", "B", "C", "D", "E", "F" >>)

\* c in "0123456789abcdefABCDEF"
IsHexDigit(c) == \E i \in 1..Len(HEX_DIGITS) : HEX_DIGITS[i] = c

\* the value of a hex digit, as bytes.fromhex reads it
HexVal(c) ==
    IF IsDigit(c) THEN c - CH_0
    ELSE IF c >= CH_LOWER_A THEN c - CH_LOWER_A + 10
    ELSE c - CH_UPPER_A + 10

\* bytes.fromhex(s), for a string of hex digits of even length
FromHex(s) == [k \in 1..(Len(s) \div 2) |-> HexVal(s[2 * k - 1]) * 16 + HexVal(s[2 * k])]

\* what parse_key hands back: the key, or the ValueError it raises, which names
\* the length of the trimmed input
ParsedKey(key) == [raised |-> FALSE, key |-> key, error |-> "", got |-> 0]

InvalidKey(got) == [raised |-> TRUE, key |-> <<>>, error |-> "ValueError", got |-> got]

\* parse_key after the trim; decoded is base64.b64decode(trimmed), whose failure the
\* except clause swallows
ParseTrimmed_AnyLength(trimmed, decoded) ==
    IF Len(trimmed) = KEY_LENGTH * 2 /\ \A i \in 1..Len(trimmed) : IsHexDigit(trimmed[i])
    THEN ParsedKey(FromHex(trimmed))
    ELSE IF decoded.ok
    THEN ParsedKey(decoded.bytes)
    ELSE InvalidKey(Len(trimmed))

ParseTrimmed(trimmed, decoded) ==
    IF Len(trimmed) = KEY_LENGTH * 2 /\ \A i \in 1..Len(trimmed) : IsHexDigit(trimmed[i])
    THEN ParsedKey(FromHex(trimmed))
    ELSE IF decoded.ok /\ Len(decoded.bytes) = KEY_LENGTH
    THEN ParsedKey(decoded.bytes)
    ELSE InvalidKey(Len(trimmed))

\* the base64 attempt of parse_key
DecodeKey_Padded(trimmed) ==
    B64Decode(trimmed \o [k \in 1..((4 - (Len(trimmed) % 4)) % 4) |-> CH_EQ])

DecodeKey(trimmed) == B64Decode(trimmed)

\* parse_key(key_str)
parse_key(key_str) == ParseTrimmed(Strip(key_str), DecodeKey(Strip(key_str)))

(***************************************************************************)
(* Key strings.                                                            *)
(***************************************************************************)
\* the longest run of hex digits given to parse_key
MaxHexChars == 70

LOWER_HEX == SubSeq(HEX_DIGITS, 1, 16)

UPPER_HEX == SubSeq(HEX_DIGITS, 1, 10) \o SubSeq(HEX_DIGITS, 17, 22)

\* bytes.hex(), in lower or upper case
HexText(b, digits) ==
    [k \in 1..(2 * Len(b)) |->
        IF k % 2 = 1 THEN digits[(b[(k + 1) \div 2] \div 16) + 1]
        ELSE digits[(b[k \div 2] % 16) + 1]]

\* n hex digits: lower case, upper case, or both
HexRun(n, style) ==
    [k \in 1..n |->
        CASE style = "lower" -> LOWER_HEX[((7 * k) % 16) + 1]
          [] style = "upper" -> UPPER_HEX[((5 * k + 3) % 16) + 1]
          [] OTHER -> HEX_DIGITS[((5 * k) % 22) + 1]]

\* the white space put around a key string
Padded(t, pad) ==
    CASE pad = "none" -> t
      [] pad = "spaces" -> <<32>> \o t \o <<10>>
      [] OTHER -> <<9, 32>> \o t \o <<32, 13, 10>>

Pads == {"none", "spaces", "tabs"}

KeyBytes ==
    [K1 |-> K1, K2 |-> K2, short |-> SubSeq(K1, 1, KEY_LENGTH - 1),
     long |-> K1 \o <<7>>, none |-> <<>>]

\* a key string is described by what it was made from
KeyInput(kind, source, n, style, pad) ==
    [kind |-> kind, source |-> source, n |-> n, style |-> style, pad |-> pad]

KeyInputs ==
    {KeyInput("hex", b, 2 * KEY_LENGTH, style, pad) :
        b \in {"K1", "K2"}, style \in {"lower", "upper"}, pad \in Pads}
    \cup {KeyInput("hexrun", "none", n, style, "none") :
            n \in 0..MaxHexChars, style \in {"lower", "upper", "mixed"}}
    \cup {KeyInput("hexrun", "none", 2 * KEY_LENGTH, "mixed", pad) : pad \in Pads}
    \cup {KeyInput("base64", b, 0, "", pad) : b \in DOMAIN KeyBytes, pad \in Pads}
    \cup {KeyInput(kind, "K1", 0, "", "none") :
            kind \in {"base64_noisy", "base64_unpadded", "base64_nonascii"}}
    \cup {KeyInput(kind, "none", 2 * KEY_LENGTH, "", "none") :
            kind \in {"not_hex", "hex_inner_space"}}

\* the text of a key string
KeyText(d) ==
    Padded(CASE d.kind = "hex" ->
                  HexText(KeyBytes[d.source], IF d.style = "lower" THEN LOWER_HEX ELSE UPPER_HEX)
             [] d.kind = "hexrun" -> HexRun(d.n, d.style)
             [] d.kind = "base64" -> B64Encode(KeyBytes[d.source])
             [] d.kind = "base64_noisy" ->
                  SubSeq(B64Encode(K1), 1, 10) \o <<33, 10>> \o SubSeq(B64Encode(K1), 11, 44)
             [] d.kind = "base64_unpadded" -> SubSeq(B64Encode(K1), 1, 43)
             [] d.kind = "base64_nonascii" -> <<233>> \o B64Encode(K1)
             [] d.kind = "not_hex" -> [k \in 1..d.n |-> CH_LOWER_Z]
             [] OTHER -> HexRun(32, "lower") \o <<32>> \o HexRun(31, "upper"),
           d.pad)

(***************************************************************************)
(* Keys: load_dotenv and load_private_key.                                 *)
(***************************************************************************)
PRIVATE_KEY_ENV == Text(<<"P", "R", "I", "V", "A", "T", "E", "_", "K", "E", "Y">>)

CH_HASH == Ord("#")

CH_APOSTROPHE == Ord("'")

\* dict.get(name, default)
DictGet(dict, name, default) == IF name \in DOMAIN dict THEN dict[name] ELSE default

\* the line boundaries of str.splitlines()
IsLineBreak(c) ==
    \/ (c >= 10 /\ c <= 13) \/ (c >= 28 /\ c <= 30) \/ c = 133 \/ c = 8232 \/ c = 8233

\* content.splitlines(), from position i on; "\r\n" is one boundary
RECURSIVE SplitLinesFrom(_, _)
RECURSIVE SplitLinesAt(_, _, _)
SplitLinesAt(s, i, e) ==
    <<SubSeq(s, i, e - 1)>>
        \o SplitLinesFrom(s, IF e < Len(s) /\ s[e] = 13 /\ s[e + 1] = 10 THEN e + 2 ELSE e + 1)

SplitLinesFrom(s, i) ==
    IF i > Len(s) THEN <<>>
    ELSE SplitLinesAt(s, i, RunEnd(s, i, [k \in 1..Len(s) |-> ~IsLineBreak(s[k])]))

SplitLines(s) == SplitLinesFrom(s, 1)

\* the value of a line with its surrounding quotes removed
Unquoted(value) ==
    IF /\ Len(value) >= 2
       /\ \/ value[1] = CH_QUOTE /\ value[Len(value)] = CH_QUOTE
          \/ value[1] = CH_APOSTROPHE /\ value[Len(value)] = CH_APOSTROPHE
    THEN SubSeq(value, 2, Len(value) - 1)
    ELSE value

\* line.partition("="), the line holding a "=" at position eq
Partitioned(line, eq) ==
    [set |-> TRUE, key |-> Strip(SubSeq(line, 1, eq - 1)),
     value |-> Unquoted(Strip(SubSeq(line, eq + 1, Len(line))))]

\* what one stripped line of .env sets: nothing for an empty line, a comment and a
\* line without "="
DotenvEntry(line) ==
    IF line = <<>> \/ line[1] = CH_HASH \/ ~\E k \in 1..Len(line) : line[k] = CH_EQ
    THEN [set |-> FALSE, key |-> <<>>, value |-> <<>>]
    ELSE Partitioned(line, RunEnd(line, 1, [k \in 1..Len(line) |-> line[k] # CH_EQ]))

\* env_vars after the loop: a later line overrides an earlier one
EnvVars(entries) ==
    [name \in {entries[i].key : i \in {j \in 1..Len(entries) : entries[j].set}} |->
        entries[CHOOSE i \in 1..Len(entries) :
                    /\ entries[i].set /\ entries[i].key = name
                    /\ \A j \in (i + 1)..Len(entries) :
                          ~(entries[j].set /\ entries[j].key = name)].value]

DotenvEntries(lines) == [i \in 1..Len(lines) |-> DotenvEntry(Strip(lines[i]))]

\* load_dotenv(), file being the .env file of the repository root
load_dotenv(file) ==
    IF ~file.exists THEN EnvVars(<<>>) ELSE EnvVars(DotenvEntries(SplitLines(file.content)))

\* what load_private_key hands back
Loaded(key, warnings) == [raised |-> FALSE, key |-> key, warnings |-> warnings]

\* warnings.warn(f"Invalid {PRIVATE_KEY_ENV}: {e}")
InvalidKeyWarning(e) == [text |-> "Invalid PRIVATE_KEY", error |-> e.error, got |-> e.got]

\* the try block of load_private_key: only ValueError is caught
KeyOrWarning(r) ==
    IF ~r.raised THEN Loaded(r.key, <<>>)
    ELSE IF r.error = "ValueError" THEN Loaded(NoKey, <<InvalidKeyWarning(r)>>)
    ELSE [raised |-> TRUE, key |-> NoKey, warnings |-> <<>>]

LoadSelected(key_str) ==
    IF key_str = <<>> THEN Loaded(NoKey, <<>>) ELSE KeyOrWarning(parse_key(key_str))

\* key_str: the environment value, or the .env entry when that one is blank
SelectedKeyStr(environ_vars, file) ==
    IF Strip(DictGet(environ_vars, PRIVATE_KEY_ENV, <<>>)) # <<>>
    THEN Strip(DictGet(environ_vars, PRIVATE_KEY_ENV, <<>>))
    ELSE Strip(DictGet(load_dotenv(file), PRIVATE_KEY_ENV, <<>>))

\* load_private_key()
load_private_key_Fallback(environ_vars, file) ==
    IF LoadSelected(SelectedKeyStr(environ_vars, file)).key # NoKey
    THEN LoadSelected(SelectedKeyStr(environ_vars, file))
    ELSE LoadSelected(Strip(DictGet(load_dotenv(file), PRIVATE_KEY_ENV, <<>>)))

load_private_key(environ_vars, file) == LoadSelected(SelectedKeyStr(environ_vars, file))

(***************************************************************************)
(* Environments and .env files.                                            *)
(***************************************************************************)
\* the largest number of lines of a .env file
MaxEnvLines == 2

\* the values of PRIVATE_KEY in os.environ ("unset": the variable is not there)
EnvironValue ==
    [unset |-> <<>>,
     empty |-> <<>>,
     blank |-> <<32, 9, 32>>,
     hexK1 |-> HexText(K1, LOWER_HEX),
     b64K2 |-> Padded(B64Encode(K2), "spaces"),
     short |-> Text(<<"a", "b", "c">>),
     hex63 |-> HexRun(63, "mixed")]

OsEnviron(e) ==
    IF e = "unset" THEN (Text(<<"H", "O", "M", "E">>) :> Text(<<"/">>))
    ELSE (Text(<<"H", "O", "M", "E">>) :> Text(<<"/">>)) @@ (PRIVATE_KEY_ENV :> EnvironValue[e])

\* the lines of .env files
DotenvLine ==
    [comment |-> <<CH_HASH, 32>> \o PRIVATE_KEY_ENV \o <<CH_EQ>> \o HexText(K2, LOWER_HEX),
     spaces |-> <<32, 32, 9>>,
     other |-> Text(<<"O", "T", "H", "E", "R", "=", "x">>),
     noequals |-> PRIVATE_KEY_ENV,
     export |-> Text(<<"e", "x", "p", "o", "r", "t", " ">>) \o PRIVATE_KEY_ENV \o <<CH_EQ>>
                    \o HexText(K1, LOWER_HEX),
     keyK2 |-> PRIVATE_KEY_ENV \o <<CH_EQ>> \o HexText(K2, UPPER_HEX),
     keyK1quoted |-> <<32, 32>> \o PRIVATE_KEY_ENV \o <<32, CH_EQ, 32, CH_QUOTE>>
                        \o B64Encode(K1) \o <<CH_QUOTE, 32>>,
     keyK1single |-> PRIVATE_KEY_ENV \o <<CH_EQ, CH_APOSTROPHE>> \o HexText(K1, LOWER_HEX)
                        \o <<CH_APOSTROPHE>>,
     keymisquoted |-> PRIVATE_KEY_ENV \o <<CH_EQ, CH_QUOTE>> \o HexText(K1, LOWER_HEX)
                        \o <<CH_APOSTROPHE>>,
     keybad |-> PRIVATE_KEY_ENV \o <<CH_EQ>> \o Text(<<"a", "b", "c">>),
     keyblank |-> PRIVATE_KEY_ENV \o <<CH_EQ, 32, 32>>,
     keyquotedblank |-> PRIVATE_KEY_ENV \o <<CH_EQ, CH_QUOTE, 32, CH_QUOTE>>]

Newlines == [lf |-> <<10>>, crlf |-> <<13, 10>>]

\* a .env file is described by its lines and its line ends; no lines and no line
\* end describes the repository without a .env file
DotenvFiles ==
    {[lines |-> ls, newline |-> nl] :
        ls \in SeqsUpTo(DOMAIN DotenvLine, MaxEnvLines), nl \in DOMAIN Newlines}
    \cup {[lines |-> <<>>, newline |-> "none"]}

DotenvFile(f) ==
    IF f.newline = "none" THEN [exists |-> FALSE, content |-> <<>>]
    ELSE [exists |-> TRUE,
          content |-> Flatten([i \in 1..Len(f.lines) |->
                                  DotenvLine[f.lines[i]] \o Newlines[f.newline]])]

(***************************************************************************)
(* Placeholders: substitute_placeholders.                                  *)
(***************************************************************************)
CH_DOLLAR == Ord("$")

CH_LBRACE == Ord("{")

CH_RBRACE == Ord("}")

CH_UNDERSCORE == Ord("_")

\* [A-Za-z_]
IsNameStart(c) ==
    \/ (c >= CH_UPPER_A /\ c <= CH_UPPER_Z) \/ (c >= CH_LOWER_A /\ c <= CH_LOWER_Z)
    \/ c = CH_UNDERSCORE

\* [A-Za-z0-9_]
IsNameChar(c) == IsNameStart(c) \/ IsDigit(c)

NoPlaceholder == [found |-> FALSE, start |-> 0, stop |-> 0, name |-> <<>>]

\* the name that starts at position n0 and ends before n1, if a '}' follows it
PlaceholderNamed(s, i, n0, n1) ==
    IF n1 > Len(s) \/ s[n1] # CH_RBRACE THEN NoPlaceholder
    ELSE [found |-> TRUE, start |-> i, stop |-> n1 + 1, name |-> SubSeq(s, n0, n1 - 1)]

\* ENV_PLACEHOLDER_PATTERN = r"\$\{([A-Za-z_][A-Za-z0-9_]*)\}" tried at position i:
\* the match is s[start .. stop - 1]; the name is greedy and '}' is no name character
MatchPlaceholderAt(s, i) ==
    IF ~HasPrefixAt(s, i, <<CH_DOLLAR, CH_LBRACE>>) THEN NoPlaceholder
    ELSE IF i + 2 > Len(s) \/ ~IsNameStart(s[i + 2]) THEN NoPlaceholder
    ELSE PlaceholderNamed(s, i, i + 2,
                          RunEnd(s, i + 2, [k \in 1..Len(s) |-> IsNameChar(s[k])]))

RECURSIVE FindAllPlaceholdersFrom(_, _)
\* the scan at a '$' at position j, where ENV_PLACEHOLDER_PATTERN matches as m says
FindAllPlaceholdersStep(s, j, m) ==
    IF m.found THEN <<m>> \o FindAllPlaceholdersFrom(s, m.stop)
    ELSE FindAllPlaceholdersFrom(s, j + 1)

\* the scan at position j, a '$' or the end of s
FindAllPlaceholdersAt(s, j) ==
    IF j > Len(s) THEN <<>> ELSE FindAllPlaceholdersStep(s, j, MatchPlaceholderAt(s, j))

\* ENV_PLACEHOLDER_PATTERN.finditer(s) from position i on
FindAllPlaceholdersFrom(s, i) ==
    FindAllPlaceholdersAt(s, RunEnd(s, i, [k \in 1..Len(s) |-> s[k] # CH_DOLLAR]))

\* what replacer returns for match m: env[var_name], or match.group(0)
PlaceholderValue_Blanked(content, env, m) ==
    IF m.name \in DOMAIN env THEN env[m.name] ELSE <<>>

PlaceholderValue(content, env, m) ==
    IF m.name \in DOMAIN env THEN env[m.name] ELSE SubSeq(content, m.start, m.stop - 1)

\* what replacer appends to unresolved for match m
UnresolvedBy(env, m) == IF m.name \in DOMAIN env THEN <<>> ELSE <<m.name>>

\* the result of substitute_placeholders, ms being the matches of the pattern
SubstitutedPlaceholders(content, env, ms) ==
    [text |-> Substituted(content, ms,
                          [k \in 1..Len(ms) |-> PlaceholderValue(content, env, ms[k])]),
     unresolved |-> Flatten([k \in 1..Len(ms) |-> UnresolvedBy(env, ms[k])])]

\* substitute_placeholders(content, env)
substitute_placeholders(content, env) ==
    SubstitutedPlaceholders(content, env, FindAllPlaceholdersFrom(content, 1))

(***************************************************************************)
(* Documents with placeholders, and environments.                          *)
(***************************************************************************)
\* the largest number of pieces of a document with placeholders
MaxPieces == 3

NAME == Text(<<"N", "A", "M", "E">>)

GREETING == Text(<<"G", "R", "E", "E", "T", "I", "N", "G">>)

UNKNOWN == Text(<<"U", "N", "K", "N", "O", "W", "N">>)

X9 == Text(<<"_", "x", "9">>)

Placeholder(name) == <<CH_DOLLAR, CH_LBRACE>> \o name \o <<CH_RBRACE>>

\* the names of the placeholder pieces
PlaceholderName == [pNAME |-> NAME, pGREETING |-> GREETING, pUNKNOWN |-> UNKNOWN, pX9 |-> X9]

\* the pieces documents are made of: text, placeholders, and text that is no
\* placeholder (no name, a name that starts with a digit or holds a space, no
\* brace) or only part of one
PieceText ==
    [hello |-> Text(<<"H", "e", "l", "l", "o", " ">>) \o <<233, 8364>>,
     bang |-> Text(<<"!">>),
     pNAME |-> Placeholder(NAME),
     pGREETING |-> Placeholder(GREETING),
     pUNKNOWN |-> Placeholder(UNKNOWN),
     pX9 |-> Placeholder(X9),
     noname |-> Text(<<"$", "{", "}">>),
     digit |-> Text(<<"$", "{", "9", "A", "}">>),
     spaced |-> Text(<<"$", "{", "N", "A", " ", "M", "E", "}">>),
     bare |-> <<CH_DOLLAR>> \o NAME,
     open |-> <<CH_DOLLAR, CH_LBRACE>> \o NAME,
     dollarbrace |-> <<CH_DOLLAR, CH_LBRACE>>,
     close |-> <<CH_RBRACE>>]

PieceSeqs == SeqsUpTo(DOMAIN PieceText, MaxPieces)

PiecesText(ps) == Flatten([i \in 1..Len(ps) |-> PieceText[ps[i]]])

\* the env dicts: none of the names, some, a value that is empty and a value that
\* holds the text of a placeholder
EnvDict ==
    [empty |-> EnvVars(<<>>),
     name |-> (NAME :> Text(<<"W", "o", "r", "l", "d">>)),
     both |-> (NAME :> Text(<<"W", "o", "r", "l", "d">>)) @@ (GREETING :> Text(<<"H", "i">>)),
     blank |-> (NAME :> <<>>),
     nested |-> (NAME :> Placeholder(UNKNOWN)) @@ (X9 :> Placeholder(NAME)),
     others |-> (UNKNOWN :> Text(<<"x">>)) @@ (X9 :> Text(<<"$", "{">>))]

(***************************************************************************)
(* The filesystem: a function from the paths that exist to what is there.  *)
(* A path is a sequence of names, a name is a text.                        *)
(***************************************************************************)
Directory == [dir |-> TRUE, content |-> <<>>, utf8 |-> TRUE]

\* a file whose bytes are the UTF-8 encoding of content
TextFile(content) == [dir |-> FALSE, content |-> content, utf8 |-> TRUE]

\* a file whose bytes are no UTF-8: read_text raises UnicodeDecodeError
BinaryFile(bytes) == [dir |-> FALSE, content |-> bytes, utf8 |-> FALSE]

IsPrefix(p, q) == Len(p) <= Len(q) /\ SubSeq(q, 1, Len(p)) = p

\* path.exists(), path.is_dir(), path.is_file()
Exists(tree, p) == p \in DOMAIN tree

IsDir(tree, p) == p \in DOMAIN tree /\ tree[p].dir

IsFile(tree, p) == p \in DOMAIN tree /\ ~tree[p].dir

\* p and all that lies under it
Under(tree, p) == {q \in DOMAIN tree : IsPrefix(p, q)}

\* the entries of directory p: path.iterdir()
Children(tree, p) == {q \in DOMAIN tree : Len(q) = Len(p) + 1 /\ IsPrefix(p, q)}

\* the tree with the paths of S only
Restricted(tree, S) == [q \in S |-> tree[q]]

\* path.mkdir(parents=True, exist_ok=True)
Mkdir(tree, p) ==
    [q \in {SubSeq(p, 1, n) : n \in 1..Len(p)} \ DOMAIN tree |-> Directory] @@ tree

\* shutil.rmtree(p), and path.unlink() for a file
Removed(tree, p) == Restricted(tree, DOMAIN tree \ Under(tree, p))

\* q moved from under src to under dst
Rebased(q, src, dst) == dst \o SubSeq(q, Len(src) + 1, Len(q))

\* shutil.copytree(src, dst), and shutil.copy2(src, dst) for a file
Copied(tree, src, dst) ==
    [q \in {Rebased(r, src, dst) : r \in Under(tree, src)} |->
        tree[Rebased(q, dst, src)]] @@ tree

\* src.rename(dst), dst not existing
Renamed(tree, src, dst) == Removed(Copied(tree, src, dst), src)

\* path.write_text(content, encoding="utf-8")
Written(tree, p, content) == (p :> TextFile(content)) @@ tree

\* path.name, and the position of its last dot (0 if it has none)
NameOf(p) == p[Len(p)]

LastDot(name) ==
    CHOOSE i \in 0..Len(name) :
        /\ i = 0 \/ name[i] = Ord(".")
        /\ \A k \in (i + 1)..Len(name) : name[k] # Ord(".")

\* path.suffix: from the last dot on, unless the dot starts or ends the name
Suffix(name) ==
    IF LastDot(name) > 1 /\ LastDot(name) < Len(name)
    THEN SubSeq(name, LastDot(name), Len(name))
    ELSE <<>>

\* path.stem
Stem(name) == SubSeq(name, 1, Len(name) - Len(Suffix(name)))

\* str.lower(), for ASCII text
Lower(t) ==
    [k \in 1..Len(t) |-> IF t[k] >= CH_UPPER_A /\ t[k] <= CH_UPPER_Z THEN t[k] + 32 ELSE t[k]]

TEXT_EXTENSIONS ==
    {Text(<<".", "m", "d">>),
     Text(<<".", "t", "x", "t">>),
     Text(<<".", "y", "a", "m", "l">>),
     Text(<<".", "y", "m", "l">>),
     Text(<<".", "j", "s", "o", "n">>),
     Text(<<".", "p", "y">>),
     Text(<<".", "s", "h">>)}

MARKER_FILE == Text(<<".", "m", "a", "n", "a", "g", "e", "d", "-", "b", "y", "-", "o", "p", "e", "n", "a", "g", "e", "n", "t", "-", "l", "i", "b", "r", "a", "r", "y">>)

SKILL_MD == Text(<<"S", "K", "I", "L", "L", ".", "m", "d">>)

FRONTMATTER_BOUNDARY == Text(<<"-", "-", "-">>)

(***************************************************************************)
(* The directory walks of utils.py.                                        *)
(***************************************************************************)
\* a variant that reads the files of every extension
ReadableTextFiles_AnySuffix(tree, dir_path) ==
    {q \in Under(tree, dir_path) \ {dir_path} : ~tree[q].dir /\ tree[q].utf8}

\* a variant that takes the bytes of a file that is no UTF-8 for its text
ReadableTextFiles_Undecoded(tree, dir_path) ==
    {q \in Under(tree, dir_path) \ {dir_path} :
        ~tree[q].dir /\ Lower(Suffix(NameOf(q))) \in TEXT_EXTENSIONS}

\* the files decrypt_directory and substitute_directory read: the files under
\* dir_path (rglob("*")) with a suffix of TEXT_EXTENSIONS that decode as UTF-8
ReadableTextFiles(tree, dir_path) ==
    {q \in Under(tree, dir_path) \ {dir_path} :
        /\ ~tree[q].dir
        /\ Lower(Suffix(NameOf(q))) \in TEXT_EXTENSIONS
        /\ tree[q].utf8}

\* the tree and the counts after the loop of decrypt_directory; outcomes[q] is what
\* decrypt_or_strip_content gave for file q.  A file is written, and counted, only
\* if its content changed
DecryptedTree(tree, outcomes) ==
    [tree |-> [q \in DOMAIN tree |->
                  IF q \in DOMAIN outcomes THEN TextFile(outcomes[q].text) ELSE tree[q]],
     decrypted |-> Cardinality({q \in DOMAIN outcomes :
                      outcomes[q].text # tree[q].content /\ outcomes[q].was_decrypted}),
     stripped |-> Cardinality({q \in DOMAIN outcomes :
                      outcomes[q].text # tree[q].content /\ ~outcomes[q].was_decrypted})]

\* a variant that leaves every file as it is
decrypt_directory_Skipped(tree, dir_path, crypto, key) ==
    [tree |-> tree, decrypted |-> 0, stripped |-> 0]

\* decrypt_directory(dir_path, key), on the filesystem tree
decrypt_directory(tree, dir_path, crypto, key) ==
    DecryptedTree(tree,
        [q \in {r \in ReadableTextFiles(tree, dir_path) : has_encrypted_tags(tree[r].content)}
            |-> decrypt_or_strip_content(crypto, tree[q].content, key)])

\* the tree after the loop of substitute_directory and the names it returns (as
\* the set sync_skills makes of them); outcomes[q] is what substitute_placeholders
\* gave for file q
SubstitutedTree(tree, outcomes) ==
    [tree |-> [q \in DOMAIN tree |->
                  IF q \in DOMAIN outcomes THEN TextFile(outcomes[q].text) ELSE tree[q]],
     unresolved |-> UNION {{outcomes[q].unresolved[k] : k \in 1..Len(outcomes[q].unresolved)} :
                              q \in DOMAIN outcomes}]

\* substitute_directory(dir_path, env), on the filesystem tree
substitute_directory(tree, dir_path, env) ==
    SubstitutedTree(tree,
        [q \in ReadableTextFiles(tree, dir_path) |->
            substitute_placeholders(tree[q].content, env)])

(***************************************************************************)
(* sync.py: the places, the arguments and the operations of a run.         *)
(***************************************************************************)
HOME == <<Text(<<"h", "o", "m", "e">>)>>

\* repo_root(), skills_root(), commands_root(), mcp_config_path()
REPO == <<Text(<<"r", "e", "p", "o">>)>>

SKILLS_ROOT == REPO \o <<Text(<<"s", "k", "i", "l", "l">>)>>

COMMANDS_ROOT == REPO \o <<Text(<<"c", "o", "m", "m", "a", "n", "d">>)>>

MCP_CONFIG_PATH == REPO \o <<Text(<<"m", "c", "p">>), Text(<<"s", "e", "r", "v", "e", "r", "s", ".", "j", "s", "o", "n">>)>>

\* the defaults of --claude-skills-dir, --codex-skills-dir, --claude-commands-dir
\* and --codex-prompts-dir
CLAUDE_SKILLS_DIR == HOME \o <<Text(<<".", "c", "l", "a", "u", "d", "e">>), Text(<<"s", "k", "i", "l", "l", "s">>)>>

CODEX_SKILLS_DIR == HOME \o <<Text(<<".", "c", "o", "d", "e", "x">>), Text(<<"s", "k", "i", "l", "l", "s">>)>>

CLAUDE_COMMANDS_DIR == HOME \o <<Text(<<".", "c", "l", "a", "u", "d", "e">>), Text(<<"c", "o", "m", "m", "a", "n", "d", "s">>)>>

CODEX_PROMPTS_DIR == HOME \o <<Text(<<".", "c", "o", "d", "e", "x">>), Text(<<"p", "r", "o", "m", "p", "t", "s">>)>>

CLAUDE_JSON_PATH == HOME \o <<Text(<<".", "c", "l", "a", "u", "d", "e", ".", "j", "s", "o", "n">>)>>

CLAUDE_JSON_BACKUP == HOME \o <<Text(<<".", "c", "l", "a", "u", "d", "e", ".", "j", "s", "o", "n", ".", "b", "a", "k">>)>>

CODEX_DIR == HOME \o <<Text(<<".", "c", "o", "d", "e", "x">>)>>

CODEX_CONFIG_PATH == CODEX_DIR \o <<Text(<<"c", "o", "n", "f", "i", "g", ".", "t", "o", "m", "l">>)>>

CODEX_CONFIG_BACKUP == CODEX_DIR \o <<Text(<<"c", "o", "n", "f", "i", "g", ".", "t", "o", "m", "l", ".", "b", "a", "k">>)>>

\* a < b for names, as sorted() orders paths of one directory
NameLess(n1, n2) ==
    \E k \in 1..(Len(n2)) :
        /\ \A j \in 1..(k - 1) : j <= Len(n1) /\ n1[j] = n2[j]
        /\ k > Len(n1) \/ n1[k] < n2[k]

\* sorted(paths), the paths being entries of one directory
RECURSIVE Sorted(_)
Sorted(paths) ==
    IF paths = {} THEN <<>>
    ELSE LET least == CHOOSE p \in paths : \A q \in paths \ {p} : NameLess(NameOf(p), NameOf(q))
         IN  <<least>> \o Sorted(paths \ {least})

\* iter_skill_dirs(): the directories of skill/ that hold a SKILL.md, sorted
iter_skill_dirs(tree) ==
    Sorted({p \in Children(tree, SKILLS_ROOT) :
               tree[p].dir /\ Exists(tree, p \o <<SKILL_MD>>)})

\* iter_command_files(): the .md files of command/ whose name starts with no dot
iter_command_files(tree) ==
    Sorted({f \in Children(tree, COMMANDS_ROOT) :
               /\ ~tree[f].dir
               /\ Suffix(NameOf(f)) = Text(<<".", "m", "d">>)
               /\ NameOf(f)[1] # Ord(".")})

\* validate_skill(skill_dir) finds errors; of its checks the model keeps the first
\* of parse_frontmatter: the text starts with the frontmatter boundary
HasErrors(tree, skill_dir) ==
    ~StartsWith(tree[skill_dir \o <<SKILL_MD>>].content, FRONTMATTER_BOUNDARY)

\* load_mcp_config(): the dict that mcp/servers.json holds (its keys are the
\* servers), an empty one if there is no file
load_mcp_config(tree) ==
    IF Exists(tree, MCP_CONFIG_PATH) THEN tree[MCP_CONFIG_PATH].content ELSE {}

\* marker_contents(item_type, item_name), without the repository, commit and time
marker_contents(item_type, item_name) == item_type \o Text(<<":", " ">>) \o item_name

\* the elements of seq that satisfy keep[k]
Filtered(seq, kept) ==
    Flatten([k \in 1..Len(seq) |-> IF kept[k] THEN <<seq[k]>> ELSE <<>>])

\* one operation of a run
Op(op, src, dest, keep) == [op |-> op, src |-> src, dest |-> dest, keep |-> keep]

\* the destinations of a run: Claude Code unless --codex-only, Codex unless
\* --claude-only
Targets(a, claude, codex) ==
    (IF a.target # "codex" THEN <<claude>> ELSE <<>>)
        \o (IF a.target # "claude" THEN <<codex>> ELSE <<>>)

\* item.split(","), from position i on
RECURSIVE SplitCommasFrom(_, _)
SplitCommasFrom(item, i) ==
    IF \E j \in i..Len(item) : item[j] = Ord(",")
    THEN LET j == CHOOSE j \in i..Len(item) :
                     item[j] = Ord(",") /\ \A k \in i..(j - 1) : item[k] # Ord(",")
         IN  <<SubSeq(item, i, j - 1)>> \o SplitCommasFrom(item, j + 1)
    ELSE <<SubSeq(item, i, Len(item))>>

\* the names of one --only item: name.strip() for the names between its commas
\* that are not blank
ItemNames(item) ==
    {Strip(SplitCommasFrom(item, 1)[k]) : k \in 1..Len(SplitCommasFrom(item, 1))} \ {<<>>}

\* only_set of sync_skills and sync_commands
only_set(a) == UNION {ItemNames(a.only[k]) : k \in 1..Len(a.only)}

\* the calls of one section after its list of items is made: nothing but pruning
\* with an empty keep set when there are no items, else the copies to each
\* destination, then the pruning; pruning only with --prune and without --only
SectionOps(a, items, copy_op, prune_op, claude, codex, keep) ==
    (IF items = <<>> THEN <<>>
     ELSE Flatten([t \in 1..Len(Targets(a, claude, codex)) |->
                     [k \in 1..Len(items) |->
                         Op(copy_op, items[k], Targets(a, claude, codex)[t], {})]]))
    \o (IF a.prune /\ only_set(a) = {}
        THEN [t \in 1..Len(Targets(a, claude, codex)) |->
                 Op(prune_op, <<>>, Targets(a, claude, codex)[t], keep)]
        ELSE <<>>)

\* skill_dirs of sync_skills: the skill directories, those of --only if it is given
SelectedSkills(a, dirs) ==
    IF only_set(a) = {} THEN dirs
    ELSE Filtered(dirs, [k \in 1..Len(dirs) |-> NameOf(dirs[k]) \in only_set(a)])

\* command_files of sync_commands
SelectedCommands(a, files) ==
    IF only_set(a) = {} THEN files
    ELSE Filtered(files, [k \in 1..Len(files) |-> Stem(NameOf(files[k])) \in only_set(a)])

\* the calls sync_skills makes: none if a skill has errors
SkillOps(a, tree, dirs) ==
    IF \E k \in 1..Len(dirs) : HasErrors(tree, dirs[k]) THEN <<>>
    ELSE SectionOps(a, dirs, "copy_skill", "prune_skills", CLAUDE_SKILLS_DIR, CODEX_SKILLS_DIR,
                    {NameOf(dirs[k]) : k \in 1..Len(dirs)})

\* the calls sync_commands makes
CommandOps(a, files) ==
    SectionOps(a, files, "copy_command", "prune_commands", CLAUDE_COMMANDS_DIR,
               CODEX_PROMPTS_DIR, {Stem(NameOf(files[k])) : k \in 1..Len(files)})

\* the calls sync_mcp makes: none without servers
McpOps(a, servers) ==
    IF servers = {} THEN <<>>
    ELSE (IF a.target # "codex" THEN <<Op("sync_mcp_to_claude", <<>>, CLAUDE_JSON_PATH, {})>>
          ELSE <<>>)
         \o (IF a.target # "claude" THEN <<Op("sync_mcp_to_codex", <<>>, CODEX_CONFIG_PATH, {})>>
             ELSE <<>>)

\* the statements of copy_skill after the dry-run return, in their order
COPY_STEPS_RenameFirst ==
    <<"copytree", "rmtree", "rename", "decrypt_directory", "substitute_directory", "marker">>

COPY_STEPS_SubstituteFirst ==
    <<"copytree", "substitute_directory", "decrypt_directory", "marker", "rmtree", "rename">>

COPY_STEPS ==
    <<"copytree", "decrypt_directory", "substitute_directory", "marker", "rmtree", "rename">>

\* the temporary directory of copy_skill: dest_root / f".{src.name}.tmp-{uuid4().hex}"
TmpPath(dest_root, name, id) == dest_root \o <<<<Ord(".")>> \o name \o Text(<<".", "t", "m", "p", "-">>) \o id>>

\* the marked directories of dest_root whose name is not in keep
PrunableSkills(tree, dest_root, keep) ==
    {child \in Children(tree, dest_root) :
        /\ tree[child].dir
        /\ Exists(tree, child \o <<MARKER_FILE>>)
        /\ NameOf(child) \notin keep}

\* a variant that removes on a dry run too
prune_skills_Live(tree, dest_root, keep, dry_run) ==
    IF ~Exists(tree, dest_root) THEN tree
    ELSE Restricted(tree, DOMAIN tree \
            UNION {Under(tree, child) : child \in PrunableSkills(tree, dest_root, keep)})

\* prune_skills(dest_root, keep, dry_run): the tree it leaves
prune_skills(tree, dest_root, keep, dry_run) ==
    IF ~Exists(tree, dest_root) \/ dry_run THEN tree
    ELSE Restricted(tree, DOMAIN tree \
            UNION {Under(tree, child) : child \in PrunableSkills(tree, dest_root, keep)})

\* s without the occurrences of p, from position i on: str.replace(p, "")
RECURSIVE WithoutFrom(_, _, _)
WithoutFrom(s, p, i) ==
    IF \E j \in i..Len(s) : HasPrefixAt(s, j, p)
    THEN LET j == CHOOSE j \in i..Len(s) :
                     HasPrefixAt(s, j, p) /\ \A k \in i..(j - 1) : ~HasPrefixAt(s, k, p)
         IN  SubSeq(s, i, j - 1) \o WithoutFrom(s, p, j + Len(p))
    ELSE SubSeq(s, i, Len(s))

\* dest_dir.glob(f".*{MARKER_FILE}"): the entries whose name is a dot, anything, and
\* the marker name
CommandMarkers(tree, dest_dir) ==
    {m \in Children(tree, dest_dir) :
        /\ NameOf(m)[1] = Ord(".")
        /\ Len(NameOf(m)) > Len(MARKER_FILE)
        /\ EndsWith(NameOf(m), MARKER_FILE)}

\* command_name = marker.name[1:].replace(MARKER_FILE, "")
CommandName(marker) == WithoutFrom(NameOf(marker), MARKER_FILE, 2)

\* the markers of commands that are not in keep, and the command files they stand for
PrunableCommands(tree, dest_dir, keep) ==
    {m \in CommandMarkers(tree, dest_dir) : CommandName(m) \notin keep}

\* prune_commands(dest_dir, keep, dry_run): the tree it leaves
prune_commands(tree, dest_dir, keep, dry_run) ==
    IF ~Exists(tree, dest_dir) \/ dry_run THEN tree
    ELSE Restricted(tree, DOMAIN tree \
            UNION {{m, dest_dir \o <<CommandName(m) \o Text(<<".", "m", "d">>)>>} :
                      m \in PrunableCommands(tree, dest_dir, keep)})

\* the content copy_command writes: decrypted or stripped if it holds the marker
CommandContent(crypto, key, content) ==
    IF has_encrypted_tags(content)
    THEN decrypt_or_strip_content(crypto, content, key)
    ELSE Outcome(FALSE, content, FALSE, "", <<>>, <<>>)

\* copy_command(src, dest_dir, dry_run): the tree it leaves
copy_command(tree, src, dest_dir, dry_run, crypto, key) ==
    IF dry_run THEN tree
    ELSE Written(Written(Mkdir(tree, dest_dir),
                         dest_dir \o <<NameOf(src)>>,
                         CommandContent(crypto, key, tree[src].content).text),
                 dest_dir \o <<<<Ord(".")>> \o Stem(NameOf(src)) \o MARKER_FILE>>,
                 marker_contents(Text(<<"c", "o", "m", "m", "a", "n", "d">>), Stem(NameOf(src))))

\* what ~/.claude.json holds when there is none
NoConfig == [settings |-> "none", mcpServers |-> {}]

\* sync_mcp_to_claude(servers, dry_run): the tree it leaves; the backup is made of
\* a file that exists
sync_mcp_to_claude(tree, servers, dry_run) ==
    IF dry_run THEN tree
    ELSE Written(IF Exists(tree, CLAUDE_JSON_PATH)
                 THEN Copied(tree, CLAUDE_JSON_PATH, CLAUDE_JSON_BACKUP)
                 ELSE tree,
                 CLAUDE_JSON_PATH,
                 [(IF Exists(tree, CLAUDE_JSON_PATH) THEN tree[CLAUDE_JSON_PATH].content
                   ELSE NoConfig) EXCEPT !.mcpServers = servers])

\* sync_mcp_to_codex(servers, dry_run): the tree it leaves; the [mcp_servers.*]
\* sections of config.toml are replaced, the rest is kept
sync_mcp_to_codex(tree, servers, dry_run) ==
    IF dry_run THEN tree
    ELSE Written(IF Exists(tree, CODEX_CONFIG_PATH)
                 THEN Copied(Mkdir(tree, CODEX_DIR), CODEX_CONFIG_PATH, CODEX_CONFIG_BACKUP)
                 ELSE Mkdir(tree, CODEX_DIR),
                 CODEX_CONFIG_PATH,
                 [(IF Exists(tree, CODEX_CONFIG_PATH) THEN tree[CODEX_CONFIG_PATH].content
                   ELSE NoConfig) EXCEPT !.mcpServers = servers])

(***************************************************************************)
(* A library repository, a home directory, and the arguments of a run.     *)
(***************************************************************************)
WORLD == Text(<<"W", "o", "r", "l", "d">>)

\* a SKILL.md with frontmatter, a span whose plaintext is the text of a
\* placeholder, and placeholders
ALPHA_SKILL_MD ==
    FRONTMATTER_BOUNDARY \o Text(<<" ">>) \o encrypt_value(K1, NONCE_A, Placeholder(NAME))
        \o Text(<<" ">>) \o Placeholder(GREETING) \o Placeholder(UNKNOWN)

ALPHA_NOTES == Text(<<"t", "o", " ">>) \o Placeholder(NAME)

PLAIN_TEXT == Text(<<"p", "l", "a", "i", "n">>)

\* a SKILL.md with a span encrypted under the other key
BETA_SKILL_MD == FRONTMATTER_BOUNDARY \o Text(<<" ">>) \o encrypt_value(K2, NONCE_B, PLAIN_SECRET)

DEPLOY_MD == Text(<<"r", "u", "n", " ">>) \o encrypt_value(K1, NONCE_B, PLAIN_SECRET) \o Placeholder(NAME)

OLD_TEXT == Text(<<"o", "l", "d">>)

\* two values of uuid4().hex
TmpIds == {Text(<<"0", "a">>), Text(<<"1", "b">>)}

LEFTOVER_ID == Text(<<"0", "a">>)

\* the library: with two skills, a command and an MCP server; with nothing; with
\* a skill that does not validate
RepoTree ==
    [full |->
        (REPO :> Directory)
        @@ (SKILLS_ROOT :> Directory)
        @@ (SKILLS_ROOT \o <<Text(<<"a", "l", "p", "h", "a">>)>> :> Directory)
        @@ (SKILLS_ROOT \o <<Text(<<"a", "l", "p", "h", "a">>), Text(<<"S", "K", "I", "L", "L", ".", "m", "d">>)>> :> TextFile(ALPHA_SKILL_MD))
        @@ (SKILLS_ROOT \o <<Text(<<"a", "l", "p", "h", "a">>), Text(<<"n", "o", "t", "e", "s", ".", "T", "X", "T">>)>> :> TextFile(ALPHA_NOTES))
        @@ (SKILLS_ROOT \o <<Text(<<"a", "l", "p", "h", "a">>), Text(<<"l", "o", "g", "o", ".", "p", "n", "g">>)>> :> TextFile(ALPHA_SKILL_MD))
        @@ (SKILLS_ROOT \o <<Text(<<"a", "l", "p", "h", "a">>), Text(<<"d", "a", "t", "a", ".", "j", "s", "o", "n">>)>> :> BinaryFile(<<255, 254>>))
        @@ (SKILLS_ROOT \o <<Text(<<"a", "l", "p", "h", "a">>), Text(<<"r", "e", "f">>)>> :> Directory)
        @@ (SKILLS_ROOT \o <<Text(<<"a", "l", "p", "h", "a">>), Text(<<"r", "e", "f">>), Text(<<"p", "l", "a", "i", "n", ".", "m", "d">>)>> :> TextFile(PLAIN_TEXT))
        @@ (SKILLS_ROOT \o <<Text(<<"b", "e", "t", "a">>)>> :> Directory)
        @@ (SKILLS_ROOT \o <<Text(<<"b", "e", "t", "a">>), Text(<<"S", "K", "I", "L", "L", ".", "m", "d">>)>> :> TextFile(BETA_SKILL_MD))
        @@ (SKILLS_ROOT \o <<Text(<<"d", "r", "a", "f", "t", "s">>)>> :> Directory)
        @@ (SKILLS_ROOT \o <<Text(<<"d", "r", "a", "f", "t", "s">>), Text(<<"t", "o", "d", "o", ".", "m", "d">>)>> :> TextFile(PLAIN_TEXT))
        @@ (COMMANDS_ROOT :> Directory)
        @@ (COMMANDS_ROOT \o <<Text(<<"d", "e", "p", "l", "o", "y", ".", "m", "d">>)>> :> TextFile(DEPLOY_MD))
        @@ (COMMANDS_ROOT \o <<Text(<<".", "h", "i", "d", "d", "e", "n", ".", "m", "d">>)>> :> TextFile(PLAIN_TEXT))
        @@ (COMMANDS_ROOT \o <<Text(<<"r", "e", "a", "d", "m", "e", ".", "t", "x", "t">>)>> :> TextFile(PLAIN_TEXT))
        @@ (REPO \o <<Text(<<"m", "c", "p">>)>> :> Directory)
        @@ (MCP_CONFIG_PATH :> TextFile({"github"})),
     empty |->
        (REPO :> Directory)
        @@ (SKILLS_ROOT :> Directory)
        @@ (COMMANDS_ROOT :> Directory),
     invalid |->
        (REPO :> Directory)
        @@ (SKILLS_ROOT :> Directory)
        @@ (SKILLS_ROOT \o <<Text(<<"a", "l", "p", "h", "a">>)>> :> Directory)
        @@ (SKILLS_ROOT \o <<Text(<<"a", "l", "p", "h", "a">>), Text(<<"S", "K", "I", "L", "L", ".", "m", "d">>)>> :> TextFile(PLAIN_TEXT))
        @@ (SKILLS_ROOT \o <<Text(<<"b", "e", "t", "a">>)>> :> Directory)
        @@ (SKILLS_ROOT \o <<Text(<<"b", "e", "t", "a">>), Text(<<"S", "K", "I", "L", "L", ".", "m", "d">>)>> :> TextFile(BETA_SKILL_MD))
        @@ (COMMANDS_ROOT :> Directory)
        @@ (COMMANDS_ROOT \o <<Text(<<"d", "e", "p", "l", "o", "y", ".", "m", "d">>)>> :> TextFile(DEPLOY_MD))
        @@ (REPO \o <<Text(<<"m", "c", "p">>)>> :> Directory)
        @@ (MCP_CONFIG_PATH :> TextFile({"github"}))]

\* the home directory: without any of the destinations, and with all of them,
\* holding managed, orphaned and unmanaged items, a leftover temporary tree,
\* config files, and the marker of a command whose name ends with the marker's
HomeTree ==
    [fresh |->
        (HOME :> Directory),
     used |->
        (HOME :> Directory)
        @@ (HOME \o <<Text(<<".", "c", "l", "a", "u", "d", "e">>)>> :> Directory)
        @@ (CLAUDE_SKILLS_DIR :> Directory)
        @@ (CLAUDE_SKILLS_DIR \o <<Text(<<"a", "l", "p", "h", "a">>)>> :> Directory)
        @@ (CLAUDE_SKILLS_DIR \o <<Text(<<"a", "l", "p", "h", "a">>), Text(<<"S", "K", "I", "L", "L", ".", "m", "d">>)>> :> TextFile(OLD_TEXT))
        @@ (CLAUDE_SKILLS_DIR \o <<Text(<<"a", "l", "p", "h", "a">>), Text(<<"s", "t", "a", "l", "e", ".", "m", "d">>)>> :> TextFile(OLD_TEXT))
        @@ (CLAUDE_SKILLS_DIR \o <<Text(<<"a", "l", "p", "h", "a">>), MARKER_FILE>> :> TextFile(OLD_TEXT))
        @@ (CLAUDE_SKILLS_DIR \o <<Text(<<"g", "o", "n", "e">>)>> :> Directory)
        @@ (CLAUDE_SKILLS_DIR \o <<Text(<<"g", "o", "n", "e">>), MARKER_FILE>> :> TextFile(OLD_TEXT))
        @@ (CLAUDE_SKILLS_DIR \o <<Text(<<"m", "i", "n", "e">>)>> :> Directory)
        @@ (CLAUDE_SKILLS_DIR \o <<Text(<<"m", "i", "n", "e">>), Text(<<"S", "K", "I", "L", "L", ".", "m", "d">>)>> :> TextFile(OLD_TEXT))
        @@ (TmpPath(CLAUDE_SKILLS_DIR, Text(<<"a", "l", "p", "h", "a">>), LEFTOVER_ID) :> Directory)
        @@ (TmpPath(CLAUDE_SKILLS_DIR, Text(<<"a", "l", "p", "h", "a">>), LEFTOVER_ID) \o <<Text(<<"j", "u", "n", "k", ".", "m", "d">>)>> :> TextFile(OLD_TEXT))
        @@ (CLAUDE_COMMANDS_DIR :> Directory)
        @@ (CLAUDE_COMMANDS_DIR \o <<Text(<<"d", "e", "p", "l", "o", "y", ".", "m", "d">>)>> :> TextFile(OLD_TEXT))
        @@ (CLAUDE_COMMANDS_DIR \o <<<<Ord(".")>> \o Text(<<"d", "e", "p", "l", "o", "y">>) \o MARKER_FILE>> :> TextFile(OLD_TEXT))
        @@ (CLAUDE_COMMANDS_DIR \o <<Text(<<"o", "l", "d", ".", "m", "d">>)>> :> TextFile(OLD_TEXT))
        @@ (CLAUDE_COMMANDS_DIR \o <<<<Ord(".")>> \o Text(<<"o", "l", "d">>) \o MARKER_FILE>> :> TextFile(OLD_TEXT))
        @@ (CLAUDE_COMMANDS_DIR \o <<Text(<<"m", "i", "n", "e", ".", "m", "d">>)>> :> TextFile(OLD_TEXT))
        @@ (CLAUDE_JSON_PATH :> TextFile([settings |-> "user", mcpServers |-> {"old"}]))
        @@ (CODEX_DIR :> Directory)
        @@ (CODEX_SKILLS_DIR :> Directory)
        @@ (CODEX_SKILLS_DIR \o <<Text(<<"g", "o", "n", "e">>)>> :> Directory)
        @@ (CODEX_SKILLS_DIR \o <<Text(<<"g", "o", "n", "e">>), MARKER_FILE>> :> TextFile(OLD_TEXT))
        @@ (CODEX_PROMPTS_DIR :> Directory)
        @@ (CODEX_PROMPTS_DIR \o <<<<Ord(".")>> \o Text(<<"g", "h", "o", "s", "t">>) \o MARKER_FILE>> :> TextFile(OLD_TEXT))
        @@ (CODEX_PROMPTS_DIR \o <<Text(<<"x", ".", "m", "d">>)>> :> TextFile(OLD_TEXT))
        @@ (CODEX_PROMPTS_DIR \o <<<<Ord(".")>> \o Text(<<"x">>) \o MARKER_FILE \o MARKER_FILE>>
               :> TextFile(OLD_TEXT))
        @@ (CODEX_CONFIG_PATH :> TextFile([settings |-> "user", mcpServers |-> {"old"}]))]

\* os.environ: without the names, and with NAME and a GREETING that is the text of
\* an encrypted span
RunEnv ==
    [empty |-> EnvVars(<<>>),
     set |-> (NAME :> WORLD) @@ (GREETING :> encrypt_value(K1, NONCE_B, PLAIN_SECRET))]

\* the arguments of parse_args(): --dry-run, --prune, one of --skills-only,
\* --commands-only and --mcp-only or none, one of --claude-only and --codex-only or
\* none, and the items of --only (none, a name, an item without a name)
SyncArgs ==
    [dry_run : BOOLEAN, prune : BOOLEAN,
     section : {"all", "skills", "commands", "mcp"},
     target : {"both", "claude", "codex"},
     only : {<<>>, <<Text(<<"a", "l", "p", "h", "a", ",", " ">>)>>, <<Text(<<",">>)>>}]

(***************************************************************************)
(* The single-file functions of utils.py, and trees to walk.               *)
(***************************************************************************)
\* what a call on a tree gave: the tree it left and what it returned
Walked(tree, returned) == [tree |-> tree, returned |-> returned]

\* file_path.suffix.lower() in TEXT_EXTENSIONS
HasTextExtension(file_path) == Lower(Suffix(NameOf(file_path))) \in TEXT_EXTENSIONS

\* decrypt_file, lines 560-567: after decrypt_or_strip_content gave outcome
DecryptedFile(tree, file_path, outcome) ==
    Walked(IF outcome.text # tree[file_path].content
           THEN Written(tree, file_path, outcome.text)
           ELSE tree,
           outcome.was_decrypted)

\* decrypt_file(file_path, key)
decrypt_file(tree, file_path, crypto, key) ==
    IF ~HasTextExtension(file_path) THEN Walked(tree, FALSE)
    ELSE IF ~tree[file_path].utf8 THEN Walked(tree, FALSE)
    ELSE IF ~has_encrypted_tags(tree[file_path].content) THEN Walked(tree, FALSE)
    ELSE DecryptedFile(tree, file_path,
                       decrypt_or_strip_content(crypto, tree[file_path].content, key))

\* substitute_file, lines 288-291: after substitute_placeholders gave outcome
SubstitutedFile(tree, file_path, outcome) ==
    Walked(IF outcome.text # tree[file_path].content
           THEN Written(tree, file_path, outcome.text)
           ELSE tree,
           outcome.unresolved)

\* substitute_file(file_path, env)
substitute_file(tree, file_path, env) ==
    IF ~HasTextExtension(file_path) THEN Walked(tree, <<>>)
    ELSE IF ~tree[file_path].utf8 THEN Walked(tree, <<>>)
    ELSE SubstitutedFile(tree, file_path,
                         substitute_placeholders(tree[file_path].content, env))

\* the largest number of entries a walked tree is made of, and of calls made on it
MaxFiles == 2

MaxWalks == 3

WALK_ROOT == <<Text(<<"t", "r", "e", "e">>)>>

\* a text with a span encrypted under the key and a placeholder
SPAN_TEXT == encrypt_value(K1, NONCE_A, PLAIN_SECRET) \o Placeholder(NAME)

\* the entries trees are made of, each with the paths it adds under the root:
\* files of the allow-list (one with an upper-case extension, one with the marker
\* and no span, one without the marker, one in a sub-directory with a legacy span
\* too), files outside of it (another extension, no extension, a name that is
\* nothing but a dot and an extension), a file that is no UTF-8, and a directory
\* with an extension of the allow-list
WalkEntry ==
    [span |-> (<<Text(<<"s", "p", "a", "n", ".", "m", "d">>)>> :> TextFile(SPAN_TEXT)),
     other |-> (<<Text(<<"o", "t", "h", "e", "r", ".", "y", "a", "m", "l">>)>> :> TextFile(encrypt_value(K2, NONCE_B, PLAIN_SECRET))),
     loose |-> (<<Text(<<"l", "o", "o", "s", "e", ".", "t", "x", "t">>)>> :> TextFile(LIT_MARKER \o Placeholder(UNKNOWN))),
     plain |-> (<<Text(<<"p", "l", "a", "i", "n", ".", "s", "h">>)>> :> TextFile(Placeholder(GREETING) \o Placeholder(X9))),
     upper |-> (<<Text(<<"U", "P", "P", "E", "R", ".", "J", "S", "O", "N">>)>> :> TextFile(SPAN_TEXT)),
     image |-> (<<Text(<<"i", "m", "a", "g", "e", ".", "p", "n", "g">>)>> :> TextFile(SPAN_TEXT)),
     makefile |-> (<<Text(<<"M", "a", "k", "e", "f", "i", "l", "e">>)>> :> TextFile(SPAN_TEXT)),
     dotmd |-> (<<Text(<<".", "m", "d">>)>> :> TextFile(SPAN_TEXT)),
     binary |-> (<<Text(<<"b", "a", "d", ".", "m", "d">>)>> :> BinaryFile(<<255>> \o Utf8Encode(SPAN_TEXT \o Placeholder(X9)))),
     deep |-> (<<Text(<<"s", "u", "b">>)>> :> Directory)
              @@ (<<Text(<<"s", "u", "b">>), Text(<<"d", "e", "e", "p", ".", "p", "y">>)>> :>
                     TextFile(LIT_OPEN \o Text(<<">", "a">>) \o LIT_CLOSE \o SPAN_TEXT)),
     dirmd |-> (<<Text(<<"d", "i", "r", ".", "m", "d">>)>> :> Directory)
               @@ (<<Text(<<"d", "i", "r", ".", "m", "d">>), Text(<<"x", ".", "b", "i", "n">>)>> :> TextFile(SPAN_TEXT))]

\* the sets of at most n elements of S
RECURSIVE SubsetsUpTo(_, _)
SubsetsUpTo(S, n) ==
    IF n = 0 THEN {{}}
    ELSE LET smaller == SubsetsUpTo(S, n - 1)
         IN  smaller \cup {s \cup {x} : s \in smaller, x \in S}

\* the tree under WALK_ROOT made of the entries of kinds
RECURSIVE WalkTree(_)
WalkTree(kinds) ==
    IF kinds = {} THEN (WALK_ROOT :> Directory)
    ELSE LET kind == CHOOSE k \in kinds : TRUE
         IN  [q \in {WALK_ROOT \o p : p \in DOMAIN WalkEntry[kind]} |->
                 WalkEntry[kind][SubSeq(q, Len(WALK_ROOT) + 1, Len(q))]]
             @@ WalkTree(kinds \ {kind})

\* the files of the tree
WalkFiles(tree) == {q \in DOMAIN tree : ~tree[q].dir}

(***************************************************************************)
(* The state: one input (a text, a key option and the module's              *)
(* CRYPTO_AVAILABLE flag), the function applied to it, and what the caller *)
(* observes of the call.                                                   *)
(***************************************************************************)
VARIABLES
    frags,              \* the fragments the input text is made of
    document,           \* the input text
    private_key,        \* the key option (_private_key): NoKey or a 32-byte key
    CRYPTO_AVAILABLE,   \* whether the cryptography package was importable
    pc,                 \* "input", or the function that has been applied
    result,             \* the outcome of the call
    second              \* the outcome of the second call, made on what the first returned

cryptVars == <<frags, document, private_key, CRYPTO_AVAILABLE, pc, result, second>>

(***************************************************************************)
(* The state of a parse_key call: the key string and what the call gave.   *)
(***************************************************************************)
VARIABLES
    key_from,           \* what the key string was made from
    key_string,         \* the key string
    key_pc,             \* "idle", "input", or "parse_key" once it has been called
    key_result          \* what parse_key handed back

keyVars == <<key_from, key_string, key_pc, key_result>>

\* no parse_key call is under way
KeyIdle ==
    /\ key_from = KeyInput("hexrun", "none", 0, "lower", "none")
    /\ key_string = <<>>
    /\ key_pc = "idle"
    /\ key_result = InvalidKey(0)

(***************************************************************************)
(* The state of a load_private_key call: the environment, the .env file    *)
(* and what the call gave.                                                 *)
(***************************************************************************)
VARIABLES
    environ_from,       \* what PRIVATE_KEY is in the environment
    os_environ,         \* os.environ
    dotenv_from,        \* the lines the .env file was made from
    env_file,           \* the .env file
    load_pc,            \* "idle", "input", or "load_private_key" once it has been called
    loaded              \* what load_private_key handed back

loadVars == <<environ_from, os_environ, dotenv_from, env_file, load_pc, loaded>>

\* no load_private_key call is under way
LoadIdle ==
    /\ environ_from = "unset"
    /\ os_environ = OsEnviron("unset")
    /\ dotenv_from = [lines |-> <<>>, newline |-> "none"]
    /\ env_file = DotenvFile(dotenv_from)
    /\ load_pc = "idle"
    /\ loaded = Loaded(NoKey, <<>>)

(***************************************************************************)
(* The state of a substitute_placeholders call.                            *)
(***************************************************************************)
VARIABLES
    pieces,             \* the pieces the document was made from
    template,           \* the document
    env_from,           \* which env dict is given
    subst_env,          \* the env dict
    subst_pc,           \* "idle", "input", or "substitute_placeholders" once called
    substituted         \* what substitute_placeholders handed back

substVars == <<pieces, template, env_from, subst_env, subst_pc, substituted>>

NotSubstituted == [text |-> <<>>, unresolved |-> <<>>]

\* no substitute_placeholders call is under way
SubstIdle ==
    /\ pieces = <<>>
    /\ template = <<>>
    /\ env_from = "empty"
    /\ subst_env = EnvDict["empty"]
    /\ subst_pc = "idle"
    /\ substituted = NotSubstituted

(***************************************************************************)
(* The state of a run of sync.py: the filesystem, the arguments, the       *)
(* globals, and the position of main and of the copy_skill under way.      *)
(***************************************************************************)
VARIABLES
    disk,               \* the filesystem: the library repository and the home directory
    disk_start,         \* the filesystem when the run started
    sync_args,          \* the arguments of the run
    run_env,            \* os.environ
    sync_pc,            \* "idle", the section main calls next, or "done"
    todo,               \* the calls the section under way has still to make
    tmp_dir,            \* tmp of the copy_skill under way
    copy_pc,            \* the statement of COPY_STEPS copy_skill is at, 0 outside of it
    copy_result,        \* decrypted, stripped and unresolved of the copy_skill under way
    all_unresolved,     \* all_unresolved of sync_skills
    encryption_warned,  \* _encryption_warned
    errors,             \* errors of main
    trace               \* the operations carried out, in their order

syncVars ==
    <<disk, disk_start, sync_args, run_env, sync_pc, todo, tmp_dir, copy_pc, copy_result,
      all_unresolved, encryption_warned, errors, trace>>

NoCopy == [decrypted |-> 0, stripped |-> 0, unresolved |-> {}]

\* no run of sync.py is under way
SyncIdle ==
    /\ disk = <<>>
    /\ disk_start = <<>>
    /\ sync_args = [dry_run |-> FALSE, prune |-> FALSE, section |-> "all",
                    target |-> "both", only |-> <<>>]
    /\ run_env = RunEnv["empty"]
    /\ sync_pc = "idle"
    /\ todo = <<>>
    /\ tmp_dir = <<>>
    /\ copy_pc = 0
    /\ copy_result = NoCopy
    /\ all_unresolved = {}
    /\ encryption_warned = FALSE
    /\ errors = 0
    /\ trace = <<>>

(***************************************************************************)
(* The state of a sequence of calls of decrypt_directory, decrypt_file,    *)
(* substitute_directory and substitute_file on one tree: the tree is disk, *)
(* the key private_key and the env dict run_env.                           *)
(***************************************************************************)
VARIABLES
    walk_from,          \* the entries the tree was made of
    walked              \* the calls made, each with what it returned

walkVars == <<walk_from, walked>>

\* no tree is walked
WalkIdle ==
    /\ walk_from = {}
    /\ walked = <<>>

\* the variables of the other operations, which the calls above leave alone
otherVars == <<keyVars, loadVars, substVars, syncVars, walkVars>>

vars == <<cryptVars, otherVars>>

NoOutcome == Outcome(FALSE, <<>>, FALSE, "", <<>>, <<>>)

Init ==
    /\ \E segs \in SegmentSeqs :
          /\ frags = FragsOf(segs)
          /\ document = TextOf(FragsOf(segs))
    /\ private_key \in KeyOptions
    /\ CRYPTO_AVAILABLE \in BOOLEAN
    /\ pc = "input"
    /\ result = NoOutcome
    /\ second = NoOutcome
    /\ KeyIdle
    /\ LoadIdle
    /\ SubstIdle
    /\ SyncIdle
    /\ WalkIdle

\* no call on a document is under way
CryptIdle ==
    /\ frags = <<>>
    /\ document = <<>>
    /\ private_key = NoKey
    /\ CRYPTO_AVAILABLE = FALSE
    /\ pc = "idle"
    /\ result = NoOutcome
    /\ second = NoOutcome

\* strip_encrypted_tags(content)
StripEncryptedTags ==
    /\ pc = "input"
    /\ pc' = "strip_encrypted_tags"
    /\ result' = Returned(strip_encrypted_tags(document), <<>>)
    /\ UNCHANGED <<frags, document, private_key, CRYPTO_AVAILABLE, second>>
    /\ UNCHANGED otherVars

\* decrypt_value(key, encrypted_value)
DecryptValue ==
    /\ pc = "input"
    /\ private_key # NoKey
    /\ pc' = "decrypt_value"
    /\ result' = decrypt_value(CRYPTO_AVAILABLE, private_key, document)
    /\ UNCHANGED <<frags, document, private_key, CRYPTO_AVAILABLE, second>>
    /\ UNCHANGED otherVars

\* decrypt_content_tags(key, content)
DecryptContentTags ==
    /\ pc = "input"
    /\ private_key # NoKey
    /\ pc' = "decrypt_content_tags"
    /\ result' = decrypt_content_tags(CRYPTO_AVAILABLE, private_key, document)
    /\ UNCHANGED <<frags, document, private_key, CRYPTO_AVAILABLE, second>>
    /\ UNCHANGED otherVars

\* decrypt_or_strip_content(content, key)
DecryptOrStripContent ==
    /\ pc = "input"
    /\ pc' = "decrypt_or_strip_content"
    /\ result' = decrypt_or_strip_content(CRYPTO_AVAILABLE, document, private_key)
    /\ UNCHANGED <<frags, document, private_key, CRYPTO_AVAILABLE, second>>
    /\ UNCHANGED otherVars

\* decrypt_or_strip_content(content, key) on the text the first call returned
SecondPass ==
    /\ pc = "decrypt_or_strip_content"
    /\ pc' = "second_pass"
    /\ second' = decrypt_or_strip_content(CRYPTO_AVAILABLE, result.text, private_key)
    /\ UNCHANGED <<frags, document, private_key, CRYPTO_AVAILABLE, result>>
    /\ UNCHANGED otherVars

\* encrypt_value(plaintext): the input text encrypted under the key
EncryptValue ==
    /\ pc = "input"
    /\ private_key # NoKey
    /\ pc' = "encrypt_value"
    /\ \E nonce \in Nonces :
          result' = Returned(encrypt_value(private_key, nonce, document), <<>>)
    /\ UNCHANGED <<frags, document, private_key, CRYPTO_AVAILABLE, second>>
    /\ UNCHANGED otherVars

\* decrypt_value(key, encrypted) on what encrypt_value returned
RoundTrip ==
    /\ pc = "encrypt_value"
    /\ pc' = "round_trip"
    /\ second' = decrypt_value(CRYPTO_AVAILABLE, private_key, result.text)
    /\ UNCHANGED <<frags, document, private_key, CRYPTO_AVAILABLE, result>>
    /\ UNCHANGED otherVars

Next ==
    \/ StripEncryptedTags
    \/ DecryptValue
    \/ DecryptContentTags
    \/ DecryptOrStripContent
    \/ SecondPass
    \/ EncryptValue
    \/ RoundTrip

Spec == Init /\ [][Next]_vars

(***************************************************************************)
(* parse_key on one key string.                                            *)
(***************************************************************************)
KeyInit ==
    /\ key_from \in KeyInputs
    /\ key_string = KeyText(key_from)
    /\ key_pc = "input"
    /\ key_result = InvalidKey(0)
    /\ CryptIdle
    /\ LoadIdle
    /\ SubstIdle
    /\ SyncIdle
    /\ WalkIdle

\* parse_key(key_str)
ParseKey ==
    /\ key_pc = "input"
    /\ key_pc' = "parse_key"
    /\ key_result' = parse_key(key_string)
    /\ UNCHANGED <<key_from, key_string>>
    /\ UNCHANGED <<cryptVars, loadVars, substVars, syncVars, walkVars>>

KeyNext == ParseKey

KeySpec == KeyInit /\ [][KeyNext]_vars

(***************************************************************************)
(* load_private_key in one environment.                                    *)
(***************************************************************************)
LoadInit ==
    /\ environ_from \in DOMAIN EnvironValue
    /\ os_environ = OsEnviron(environ_from)
    /\ dotenv_from \in DotenvFiles
    /\ env_file = DotenvFile(dotenv_from)
    /\ load_pc = "input"
    /\ loaded = Loaded(NoKey, <<>>)
    /\ CryptIdle
    /\ KeyIdle
    /\ SubstIdle
    /\ SyncIdle
    /\ WalkIdle

\* load_private_key()
LoadPrivateKey ==
    /\ load_pc = "input"
    /\ load_pc' = "load_private_key"
    /\ loaded' = load_private_key(os_environ, env_file)
    /\ UNCHANGED <<environ_from, os_environ, dotenv_from, env_file>>
    /\ UNCHANGED <<cryptVars, keyVars, substVars, syncVars, walkVars>>

LoadNext == LoadPrivateKey

LoadKeySpec == LoadInit /\ [][LoadNext]_vars

(***************************************************************************)
(* substitute_placeholders on one document and one env dict.               *)
(***************************************************************************)
SubstInit ==
    /\ pieces \in PieceSeqs
    /\ template = PiecesText(pieces)
    /\ env_from \in DOMAIN EnvDict
    /\ subst_env = EnvDict[env_from]
    /\ subst_pc = "input"
    /\ substituted = NotSubstituted
    /\ CryptIdle
    /\ KeyIdle
    /\ LoadIdle
    /\ SyncIdle
    /\ WalkIdle

\* substitute_placeholders(content, env)
SubstitutePlaceholders ==
    /\ subst_pc = "input"
    /\ subst_pc' = "substitute_placeholders"
    /\ substituted' = substitute_placeholders(template, subst_env)
    /\ UNCHANGED <<pieces, template, env_from, subst_env>>
    /\ UNCHANGED <<cryptVars, keyVars, loadVars, syncVars, walkVars>>

SubstNext == SubstitutePlaceholders

SubstSpec == SubstInit /\ [][SubstNext]_vars

(***************************************************************************)
(* A run of sync.py.  main calls sync_skills, sync_commands and sync_mcp,  *)
(* each if it is selected; a section makes its calls one after the other,  *)
(* and copy_skill goes through its statements one at a time.               *)
(***************************************************************************)
SECTIONS == <<"skills", "commands", "mcp">>

\* sync_all or args.<section>_only
Selected(a, k) == a.section \in {"all", SECTIONS[k]}

\* the section main calls after section k (after none if k = 0)
AfterSection(a, k) ==
    IF \E j \in (k + 1)..Len(SECTIONS) : Selected(a, j)
    THEN SECTIONS[CHOOSE j \in (k + 1)..Len(SECTIONS) :
                      Selected(a, j) /\ \A i \in (k + 1)..(j - 1) : ~Selected(a, i)]
    ELSE "done"

SyncInit ==
    /\ \E r \in DOMAIN RepoTree, h \in DOMAIN HomeTree : disk = RepoTree[r] @@ HomeTree[h]
    /\ disk_start = disk
    /\ sync_args \in SyncArgs
    /\ \E e \in DOMAIN RunEnv : run_env = RunEnv[e]
    /\ private_key \in {NoKey, K1}
    /\ CRYPTO_AVAILABLE \in BOOLEAN
    /\ sync_pc = AfterSection(sync_args, 0)
    /\ todo = <<>>
    /\ tmp_dir = <<>>
    /\ copy_pc = 0
    /\ copy_result = NoCopy
    /\ all_unresolved = {}
    /\ encryption_warned = FALSE
    /\ errors = 0
    /\ trace = <<>>
    /\ frags = <<>>
    /\ document = <<>>
    /\ pc = "idle"
    /\ result = NoOutcome
    /\ second = NoOutcome
    /\ KeyIdle
    /\ LoadIdle
    /\ SubstIdle
    /\ WalkIdle

\* the variables a run of sync.py leaves alone
notSyncVars == <<cryptVars, keyVars, loadVars, substVars, walkVars>>

\* the variables of the copy_skill under way
copyVars == <<tmp_dir, copy_pc, copy_result>>

\* the call the section under way makes next
NextOp == Head(todo)

\* the statement copy_skill is at
CopyStep == IF copy_pc = 0 THEN "none" ELSE COPY_STEPS[copy_pc]

Done(op, dest) == [op |-> op, dest |-> dest]

\* sync_skills(args) up to its first copy_skill or prune_skills
SyncSkills ==
    /\ sync_pc = "skills"
    /\ todo = <<>>
    /\ todo' = SkillOps(sync_args, disk, SelectedSkills(sync_args, iter_skill_dirs(disk)))
    /\ errors' = IF \E k \in 1..Len(SelectedSkills(sync_args, iter_skill_dirs(disk))) :
                       HasErrors(disk, SelectedSkills(sync_args, iter_skill_dirs(disk))[k])
                 THEN errors + 1 ELSE errors
    /\ all_unresolved' = {}
    /\ sync_pc' = AfterSection(sync_args, 1)
    /\ trace' = Append(trace, Done("sync_skills", <<>>))
    /\ UNCHANGED <<disk, disk_start, sync_args, run_env, copyVars, encryption_warned>>
    /\ UNCHANGED notSyncVars

\* copy_skill(src, dest_root, dry_run, env) with --dry-run
CopySkillDryRun ==
    /\ todo # <<>>
    /\ NextOp.op = "copy_skill"
    /\ sync_args.dry_run
    /\ todo' = Tail(todo)
    /\ trace' = Append(trace, Done("copy_skill", NextOp.dest \o <<NameOf(NextOp.src)>>))
    /\ UNCHANGED <<disk, disk_start, sync_args, run_env, sync_pc, copyVars, all_unresolved,
                   encryption_warned, errors>>
    /\ UNCHANGED notSyncVars

\* copy_skill: dest_root.mkdir, the choice of tmp, its removal if it exists, and
\* shutil.copytree(src, tmp)
CopySkillStage ==
    /\ todo # <<>>
    /\ NextOp.op = "copy_skill"
    /\ ~sync_args.dry_run
    /\ copy_pc = 0
    /\ COPY_STEPS[1] = "copytree"
    /\ \E id \in TmpIds :
          /\ tmp_dir' = TmpPath(NextOp.dest, NameOf(NextOp.src), id)
          /\ disk' = Copied(Removed(Mkdir(disk, NextOp.dest), tmp_dir'), NextOp.src, tmp_dir')
    /\ copy_pc' = 2
    /\ copy_result' = NoCopy
    /\ trace' = Append(trace, Done("copytree", tmp_dir'))
    /\ UNCHANGED <<disk_start, sync_args, run_env, sync_pc, todo, all_unresolved,
                   encryption_warned, errors>>
    /\ UNCHANGED notSyncVars

\* copy_skill: decrypt_directory(tmp, _private_key) and the warning
CopySkillDecrypt ==
    /\ CopyStep = "decrypt_directory"
    /\ disk' = decrypt_directory(disk, tmp_dir, CRYPTO_AVAILABLE, private_key).tree
    /\ copy_result' =
          [copy_result EXCEPT
              !.decrypted = decrypt_directory(disk, tmp_dir, CRYPTO_AVAILABLE,
                                              private_key).decrypted,
              !.stripped = decrypt_directory(disk, tmp_dir, CRYPTO_AVAILABLE,
                                             private_key).stripped]
    /\ encryption_warned' = (encryption_warned \/ copy_result'.stripped > 0)
    /\ copy_pc' = copy_pc + 1
    /\ trace' = Append(trace, Done("decrypt_directory", tmp_dir))
    /\ UNCHANGED <<disk_start, sync_args, run_env, sync_pc, todo, tmp_dir, all_unresolved,
                   errors>>
    /\ UNCHANGED notSyncVars

\* copy_skill: substitute_directory(tmp, env)
CopySkillSubstitute ==
    /\ CopyStep = "substitute_directory"
    /\ disk' = substitute_directory(disk, tmp_dir, run_env).tree
    /\ copy_result' =
          [copy_result EXCEPT
              !.unresolved = substitute_directory(disk, tmp_dir, run_env).unresolved]
    /\ copy_pc' = copy_pc + 1
    /\ trace' = Append(trace, Done("substitute_directory", tmp_dir))
    /\ UNCHANGED <<disk_start, sync_args, run_env, sync_pc, todo, tmp_dir, all_unresolved,
                   encryption_warned, errors>>
    /\ UNCHANGED notSyncVars

\* copy_skill: the marker file is written into tmp
CopySkillMarker ==
    /\ CopyStep = "marker"
    /\ disk' = Written(disk, tmp_dir \o <<MARKER_FILE>>,
                       marker_contents(Text(<<"s", "k", "i", "l", "l">>), NameOf(NextOp.src)))
    /\ copy_pc' = copy_pc + 1
    /\ trace' = Append(trace, Done("marker", tmp_dir))
    /\ UNCHANGED <<disk_start, sync_args, run_env, sync_pc, todo, tmp_dir, copy_result,
                   all_unresolved, encryption_warned, errors>>
    /\ UNCHANGED notSyncVars

\* copy_skill: shutil.rmtree(dest) if dest exists
CopySkillRemoveDest ==
    /\ CopyStep = "rmtree"
    /\ disk' = Removed(disk, NextOp.dest \o <<NameOf(NextOp.src)>>)
    /\ copy_pc' = copy_pc + 1
    /\ trace' = Append(trace, Done("rmtree", NextOp.dest \o <<NameOf(NextOp.src)>>))
    /\ UNCHANGED <<disk_start, sync_args, run_env, sync_pc, todo, tmp_dir, copy_result,
                   all_unresolved, encryption_warned, errors>>
    /\ UNCHANGED notSyncVars

\* copy_skill: tmp.rename(dest) and the return; sync_skills adds the names that
\* were not resolved to all_unresolved
CopySkillRename ==
    /\ CopyStep = "rename"
    /\ disk' = Renamed(disk, tmp_dir, NextOp.dest \o <<NameOf(NextOp.src)>>)
    /\ all_unresolved' = all_unresolved \cup copy_result.unresolved
    /\ todo' = Tail(todo)
    /\ tmp_dir' = <<>>
    /\ copy_pc' = 0
    /\ copy_result' = NoCopy
    /\ trace' = Append(trace, Done("copy_skill", NextOp.dest \o <<NameOf(NextOp.src)>>))
    /\ UNCHANGED <<disk_start, sync_args, run_env, sync_pc, encryption_warned, errors>>
    /\ UNCHANGED notSyncVars

\* prune_skills(dest_root, keep, dry_run)
PruneSkills ==
    /\ todo # <<>>
    /\ NextOp.op = "prune_skills"
    /\ disk' = prune_skills(disk, NextOp.dest, NextOp.keep, sync_args.dry_run)
    /\ todo' = Tail(todo)
    /\ trace' = Append(trace, Done("prune_skills", NextOp.dest))
    /\ UNCHANGED <<disk_start, sync_args, run_env, sync_pc, copyVars, all_unresolved,
                   encryption_warned, errors>>
    /\ UNCHANGED notSyncVars

\* sync_commands(args) up to its first copy_command or prune_commands
SyncCommands ==
    /\ sync_pc = "commands"
    /\ todo = <<>>
    /\ todo' = CommandOps(sync_args, SelectedCommands(sync_args, iter_command_files(disk)))
    /\ sync_pc' = AfterSection(sync_args, 2)
    /\ trace' = Append(trace, Done("sync_commands", <<>>))
    /\ UNCHANGED <<disk, disk_start, sync_args, run_env, copyVars, all_unresolved,
                   encryption_warned, errors>>
    /\ UNCHANGED notSyncVars

\* copy_command(src, dest_dir, dry_run)
CopyCommand ==
    /\ todo # <<>>
    /\ NextOp.op = "copy_command"
    /\ disk' = copy_command(disk, NextOp.src, NextOp.dest, sync_args.dry_run,
                            CRYPTO_AVAILABLE, private_key)
    /\ encryption_warned' =
          (\/ encryption_warned
           \/ /\ ~sync_args.dry_run
              /\ has_encrypted_tags(disk[NextOp.src].content)
              /\ ~CommandContent(CRYPTO_AVAILABLE, private_key,
                                 disk[NextOp.src].content).was_decrypted)
    /\ todo' = Tail(todo)
    /\ trace' = Append(trace, Done("copy_command", NextOp.dest \o <<NameOf(NextOp.src)>>))
    /\ UNCHANGED <<disk_start, sync_args, run_env, sync_pc, copyVars, all_unresolved, errors>>
    /\ UNCHANGED notSyncVars

\* prune_commands(dest_dir, keep, dry_run)
PruneCommands ==
    /\ todo # <<>>
    /\ NextOp.op = "prune_commands"
    /\ disk' = prune_commands(disk, NextOp.dest, NextOp.keep, sync_args.dry_run)
    /\ todo' = Tail(todo)
    /\ trace' = Append(trace, Done("prune_commands", NextOp.dest))
    /\ UNCHANGED <<disk_start, sync_args, run_env, sync_pc, copyVars, all_unresolved,
                   encryption_warned, errors>>
    /\ UNCHANGED notSyncVars

\* sync_mcp(args) up to its first call
SyncMcp ==
    /\ sync_pc = "mcp"
    /\ todo = <<>>
    /\ todo' = McpOps(sync_args, load_mcp_config(disk))
    /\ sync_pc' = AfterSection(sync_args, 3)
    /\ trace' = Append(trace, Done("sync_mcp", <<>>))
    /\ UNCHANGED <<disk, disk_start, sync_args, run_env, copyVars, all_unresolved,
                   encryption_warned, errors>>
    /\ UNCHANGED notSyncVars

\* sync_mcp_to_claude(servers, dry_run)
SyncMcpToClaude ==
    /\ todo # <<>>
    /\ NextOp.op = "sync_mcp_to_claude"
    /\ disk' = sync_mcp_to_claude(disk, load_mcp_config(disk), sync_args.dry_run)
    /\ todo' = Tail(todo)
    /\ trace' = Append(trace, Done("sync_mcp_to_claude", NextOp.dest))
    /\ UNCHANGED <<disk_start, sync_args, run_env, sync_pc, copyVars, all_unresolved,
                   encryption_warned, errors>>
    /\ UNCHANGED notSyncVars

\* sync_mcp_to_codex(servers, dry_run)
SyncMcpToCodex ==
    /\ todo # <<>>
    /\ NextOp.op = "sync_mcp_to_codex"
    /\ disk' = sync_mcp_to_codex(disk, load_mcp_config(disk), sync_args.dry_run)
    /\ todo' = Tail(todo)
    /\ trace' = Append(trace, Done("sync_mcp_to_codex", NextOp.dest))
    /\ UNCHANGED <<disk_start, sync_args, run_env, sync_pc, copyVars, all_unresolved,
                   encryption_warned, errors>>
    /\ UNCHANGED notSyncVars

SyncNext ==
    \/ SyncSkills
    \/ CopySkillDryRun
    \/ CopySkillStage
    \/ CopySkillDecrypt
    \/ CopySkillSubstitute
    \/ CopySkillMarker
    \/ CopySkillRemoveDest
    \/ CopySkillRename
    \/ PruneSkills
    \/ SyncCommands
    \/ CopyCommand
    \/ PruneCommands
    \/ SyncMcp
    \/ SyncMcpToClaude
    \/ SyncMcpToCodex

SyncSpec == SyncInit /\ [][SyncNext]_vars

(***************************************************************************)
(* Calls of the walks and of the single-file functions on one tree, in     *)
(* any order.                                                              *)
(***************************************************************************)
WalkInit ==
    /\ walk_from \in SubsetsUpTo(DOMAIN WalkEntry, MaxFiles)
    /\ disk = WalkTree(walk_from)
    /\ disk_start = disk
    /\ \E e \in DOMAIN RunEnv : run_env = RunEnv[e]
    /\ private_key \in {NoKey, K1}
    /\ CRYPTO_AVAILABLE \in BOOLEAN
    /\ walked = <<>>
    /\ sync_args = [dry_run |-> FALSE, prune |-> FALSE, section |-> "all",
                    target |-> "both", only |-> <<>>]
    /\ sync_pc = "idle"
    /\ todo = <<>>
    /\ tmp_dir = <<>>
    /\ copy_pc = 0
    /\ copy_result = NoCopy
    /\ all_unresolved = {}
    /\ encryption_warned = FALSE
    /\ errors = 0
    /\ trace = <<>>
    /\ frags = <<>>
    /\ document = <<>>
    /\ pc = "idle"
    /\ result = NoOutcome
    /\ second = NoOutcome
    /\ KeyIdle
    /\ LoadIdle
    /\ SubstIdle

\* the variables a call on the tree leaves alone
notWalkVars ==
    <<cryptVars, keyVars, loadVars, substVars, disk_start, sync_args, run_env, sync_pc,
      todo, tmp_dir, copy_pc, copy_result, all_unresolved, encryption_warned, errors, trace,
      walk_from>>

Call(op, path, returned) == [op |-> op, path |-> path, returned |-> returned]

\* decrypt_directory(dir_path, key) on the root
DecryptDirectory ==
    /\ sync_pc = "idle"
    /\ Len(walked) < MaxWalks
    /\ disk' = decrypt_directory(disk, WALK_ROOT, CRYPTO_AVAILABLE, private_key).tree
    /\ walked' = Append(walked,
          Call("decrypt_directory", WALK_ROOT,
               <<decrypt_directory(disk, WALK_ROOT, CRYPTO_AVAILABLE, private_key).decrypted,
                 decrypt_directory(disk, WALK_ROOT, CRYPTO_AVAILABLE, private_key).stripped>>))
    /\ UNCHANGED notWalkVars

\* decrypt_file(file_path, key) on a file of the tree
DecryptFile ==
    /\ sync_pc = "idle"
    /\ Len(walked) < MaxWalks
    /\ \E file_path \in WalkFiles(disk) :
          /\ disk' = decrypt_file(disk, file_path, CRYPTO_AVAILABLE, private_key).tree
          /\ walked' = Append(walked,
                Call("decrypt_file", file_path,
                     decrypt_file(disk, file_path, CRYPTO_AVAILABLE, private_key).returned))
    /\ UNCHANGED notWalkVars

\* substitute_directory(dir_path, env) on the root
SubstituteDirectory ==
    /\ sync_pc = "idle"
    /\ Len(walked) < MaxWalks
    /\ disk' = substitute_directory(disk, WALK_ROOT, run_env).tree
    /\ walked' = Append(walked,
          Call("substitute_directory", WALK_ROOT,
               substitute_directory(disk, WALK_ROOT, run_env).unresolved))
    /\ UNCHANGED notWalkVars

\* substitute_file(file_path, env) on a file of the tree
SubstituteFile ==
    /\ sync_pc = "idle"
    /\ Len(walked) < MaxWalks
    /\ \E file_path \in WalkFiles(disk) :
          /\ disk' = substitute_file(disk, file_path, run_env).tree
          /\ walked' = Append(walked,
                Call("substitute_file", file_path,
                     substitute_file(disk, file_path, run_env).returned))
    /\ UNCHANGED notWalkVars

WalkNext ==
    \/ DecryptDirectory
    \/ DecryptFile
    \/ SubstituteDirectory
    \/ SubstituteFile

WalkSpec == WalkInit /\ [][WalkNext]_vars

(***************************************************************************)
(* What the contracts say of a document, read off the fragments it is made *)
(* of.  Every '<' of a document is the first character of a tag fragment,  *)
(* so a span is an opening tag, fragments without tags, and a closing tag. *)
(***************************************************************************)
\* the opening tags of versioned spans, and of versioned or legacy spans
VersionedOpens == {"OV1", "OV2", "OV01"}

AnyOpens == VersionedOpens \cup {"OL"}

\* the fragments that hold the marker '<encrypted v="'
MarkerFragments == VersionedOpens \cup {"MK"}

\* fragments i..j of fs are a span with an opening tag of opens
IsSpan(fs, i, j, opens) ==
    /\ i < j
    /\ fs[i] \in opens
    /\ fs[j] = "CL"
    /\ \A k \in (i + 1)..(j - 1) : fs[k] \notin TagFragments

StartsSpan(fs, i, opens) == \E j \in (i + 1)..Len(fs) : IsSpan(fs, i, j, opens)

SpanLast(fs, i, opens) == CHOOSE j \in (i + 1)..Len(fs) : IsSpan(fs, i, j, opens)

\* fragment k lies in a span that starts before it
InSpan(fs, k, opens) == \E i \in 1..(k - 1) : \E j \in k..Len(fs) : IsSpan(fs, i, j, opens)

HasSpan(fs, opens) == \E i \in 1..Len(fs) : StartsSpan(fs, i, opens)

HasMarker(fs) == \E i \in 1..Len(fs) : fs[i] \in MarkerFragments

\* what each payload made by encryption holds, and under which key
Sealed ==
    [ B_GOOD     |-> [key |-> K1, plaintext |-> PLAIN_SECRET],
      B_OTHERKEY |-> [key |-> K2, plaintext |-> PLAIN_SECRET],
      B_NESTED   |-> [key |-> K1, plaintext |-> PLAIN_NESTED] ]

\* the span fs[i..j] is a version-1 span whose payload was encrypted under k, and
\* the library that decrypts is there
Decryptable(fs, i, j, k, crypto) ==
    /\ crypto
    /\ fs[i] = "OV1"
    /\ j = i + 2
    /\ fs[i + 1] \in DOMAIN Sealed
    /\ Sealed[fs[i + 1]].key = k

PlaintextOf(fs, i) == Sealed[fs[i + 1]].plaintext

PayloadOf(fs, i, j) == TextOf(SubSeq(fs, i + 1, j - 1))

\* the document with every span of opens replaced: the span that starts at fragment
\* i by replacement[i]
Rewritten(fs, opens, replacement) ==
    Flatten([k \in 1..Len(fs) |->
                IF StartsSpan(fs, k, opens) THEN replacement[k]
                ELSE IF InSpan(fs, k, opens) THEN <<>>
                ELSE FragmentText[fs[k]]])

\* every span, versioned or legacy, replaced by its payload
Stripped(fs) ==
    Rewritten(fs, AnyOpens,
              [i \in 1..Len(fs) |-> PayloadOf(fs, i, SpanLast(fs, i, AnyOpens))])

\* the versioned span that starts at fragment i, as it stands
SpanText(fs, i) == TextOf(SubSeq(fs, i, SpanLast(fs, i, VersionedOpens)))

\* every versioned span that decrypts replaced by its plaintext, every other one kept
Decrypted(fs, k, crypto) ==
    Rewritten(fs, VersionedOpens,
              [i \in 1..Len(fs) |->
                  IF Decryptable(fs, i, SpanLast(fs, i, VersionedOpens), k, crypto)
                  THEN PlaintextOf(fs, i)
                  ELSE SpanText(fs, i)])

\* every versioned span replaced by its plaintext, or by its payload if it does not
\* decrypt
DecryptedOrBare(fs, k, crypto) ==
    Rewritten(fs, VersionedOpens,
              [i \in 1..Len(fs) |->
                  IF Decryptable(fs, i, SpanLast(fs, i, VersionedOpens), k, crypto)
                  THEN PlaintextOf(fs, i)
                  ELSE PayloadOf(fs, i, SpanLast(fs, i, VersionedOpens))])

(***************************************************************************)
(* The contracts.                                                          *)
(***************************************************************************)
\* C1: decrypt_or_strip_content applied, with the same key option, to the content it
\* returned gives that content back unchanged.
C1_SecondPassIsNoOp == pc = "second_pass" => second.text = result.text

C3_NoKeyStrips ==
    (pc = "decrypt_or_strip_content" /\ private_key = NoKey
        /\ HasSpan(frags, VersionedOpens))
    => /\ ~result.raised
       /\ result.text = Stripped(frags)
       /\ result.text = strip_encrypted_tags(document)
       /\ ~result.was_decrypted

C3_Witness ==
    /\ pc = "decrypt_or_strip_content"
    /\ private_key = NoKey
    /\ HasSpan(frags, VersionedOpens)
    /\ HasSpan(frags, {"OL"})
    /\ result.text # document

\* C4: decrypt_content_tags raises nothing, leaves every span that does not decrypt as
\* its original tag text, replaces every span that decrypts by its plaintext, and
\* leaves the text between spans as it is.
C4_PerSpanIsolation ==
    pc = "decrypt_content_tags"
    => /\ ~result.raised
       /\ result.text = Decrypted(frags, private_key, CRYPTO_AVAILABLE)

C4_Witness ==
    /\ pc = "decrypt_content_tags"
    /\ \E i, j \in 1..Len(frags) :
          /\ IsSpan(frags, i, j, VersionedOpens)
          /\ ~Decryptable(frags, i, j, private_key, CRYPTO_AVAILABLE)
          /\ j + 3 < Len(frags)
          /\ frags[j + 1] = "TXT"
          /\ IsSpan(frags, j + 2, j + 4, VersionedOpens)
          /\ Decryptable(frags, j + 2, j + 4, private_key, CRYPTO_AVAILABLE)
    /\ Len(result.warnings) = 1

\* C5: decrypt_or_strip_content returns was_decrypted = True exactly when there is a
\* key, the library is present and the document holds the versioned-span marker,
\* whether or not the spans decrypted.
C5_WasDecrypted ==
    pc = "decrypt_or_strip_content"
    => result.was_decrypted
          = (private_key # NoKey /\ CRYPTO_AVAILABLE /\ HasMarker(frags))

C5_Witness ==
    /\ pc = "decrypt_or_strip_content"
    /\ HasSpan(frags, VersionedOpens)
    /\ result.was_decrypted
    /\ result.text = document

\* C6: for a document without the versioned-span marker and any key option,
\* decrypt_or_strip_content returns the document as it is with was_decrypted = False,
\* and attempts neither decrypt_value nor a decode step.
C6_NoMarkerNoOp ==
    (pc = "decrypt_or_strip_content" /\ ~HasMarker(frags))
    => /\ ~result.raised
       /\ result.text = document
       /\ ~result.was_decrypted
       /\ result.events = <<>>
       /\ result.warnings = <<>>

C6_Witness ==
    /\ pc = "decrypt_or_strip_content"
    /\ ~HasMarker(frags)
    /\ HasSpan(frags, {"OL"})
    /\ private_key # NoKey
    /\ CRYPTO_AVAILABLE

\* C7, as claimed: for every key, nonce and plaintext P, decrypt_value of the span
\* that holds base64(nonce || AESGCM(K, nonce, P)) returns P.
C7_RoundTrip ==
    pc = "round_trip" => ~second.raised /\ second.text = document

\* C7, amended: when the cryptography library is available, for every key, nonce and
\* plaintext P, decrypt_value of the span that holds base64(nonce || AESGCM(K, nonce,
\* P)) returns P; when it is not, decrypt_value raises.
C7_RoundTripWithLibrary ==
    pc = "round_trip"
    => IF CRYPTO_AVAILABLE THEN ~second.raised /\ second.text = document
       ELSE second.raised

C7_Witness ==
    /\ pc = "round_trip"
    /\ CRYPTO_AVAILABLE
    /\ private_key = K2
    /\ \E i \in 1..Len(frags) : frags[i] = "UNI"
    /\ HasSpan(frags, VersionedOpens)
    /\ Contains(result.text, Payload(K2, NONCE_B, Utf8Encode(document)))
    /\ second.text = document

\* the payloads of version-1 spans that must not decrypt under key k: encrypted under
\* another key, altered in the ciphertext or in the authentication tag, or holding
\* bytes that are not UTF-8
Undecryptable(k) ==
    {"B_TAMPERED", "B_BADTAG", "B_BADUTF8"} \cup {b \in DOMAIN Sealed : Sealed[b].key # k}

\* C8: decrypt_value of a well-formed version-1 span raises, and returns no text, when
\* the key is not the encrypting key, when the ciphertext or the authentication tag
\* was altered, and when the decrypted bytes are not valid UTF-8.
C8_NoWrongText ==
    (pc = "decrypt_value" /\ Len(frags) = 3 /\ frags[1] = "OV1" /\ frags[3] = "CL"
        /\ frags[2] \in Undecryptable(private_key))
    => /\ result.raised
       /\ result.text = <<>>
       /\ CRYPTO_AVAILABLE =>
             result.error = IF frags[2] = "B_BADUTF8" /\ private_key = K1
                            THEN "UnicodeDecodeError"
                            ELSE "Decryption failed: invalid key or corrupted data"

C8_Witness ==
    /\ pc = "decrypt_value"
    /\ frags = <<"OV1", "B_OTHERKEY", "CL">>
    /\ private_key = K1
    /\ CRYPTO_AVAILABLE
    /\ result.raised

\* the opening tags of versioned spans of a version other than "1"
OtherVersionOpens == {"OV2", "OV01"}

\* decrypt_content_tags has left the span fs[i..j] as it was, where it was
LeftVerbatim(fs, i, j, k, crypto, text) ==
    text = Decrypted(SubSeq(fs, 1, i - 1), k, crypto)
              \o TextOf(SubSeq(fs, i, j))
              \o Decrypted(SubSeq(fs, j + 1, Len(fs)), k, crypto)

\* every span of another version is left verbatim by decrypt_content_tags
OtherVersionsLeft ==
    pc = "decrypt_content_tags"
    => /\ ~result.raised
       /\ \A i, j \in 1..Len(frags) :
             IsSpan(frags, i, j, OtherVersionOpens)
             => LeftVerbatim(frags, i, j, private_key, CRYPTO_AVAILABLE, result.text)

\* C9, as claimed: for a versioned span of a version other than "1", decrypt_value
\* raises an unsupported-version error whatever the payload and the key, and
\* decrypt_content_tags leaves the span's tag text verbatim.
C9_UnsupportedVersion ==
    /\ (pc = "decrypt_value" /\ StartsSpan(frags, 1, OtherVersionOpens))
       => result.raised /\ result.error = "Unsupported encryption version"
    /\ OtherVersionsLeft

\* C9, amended: for a versioned span of a version other than "1", decrypt_value
\* raises whatever the payload and the key: an unsupported-version error when the
\* cryptography library is available, the library's absence otherwise; and
\* decrypt_content_tags leaves the span's tag text verbatim either way.
C9_UnsupportedVersionWithLibrary ==
    /\ (pc = "decrypt_value" /\ StartsSpan(frags, 1, OtherVersionOpens))
       => /\ result.raised
          /\ result.error = IF CRYPTO_AVAILABLE THEN "Unsupported encryption version"
                            ELSE "cryptography library not available for decryption"
    /\ OtherVersionsLeft

C9_Witness ==
    /\ pc = "decrypt_value"
    /\ frags = <<"OV01", "B_GOOD", "CL">>
    /\ private_key = K1
    /\ CRYPTO_AVAILABLE
    /\ result.error = "Unsupported encryption version"

\* C10: strip_encrypted_tags replaces every well-formed span, versioned or legacy, by
\* its payload as it stands, leaves the text outside spans unchanged, and returns a
\* document without spans unchanged.
C10_StripEverySpan ==
    pc = "strip_encrypted_tags"
    => /\ ~result.raised
       /\ result.text = Stripped(frags)
       /\ ~HasSpan(frags, AnyOpens) => result.text = document

C10_Witness ==
    /\ pc = "strip_encrypted_tags"
    /\ HasSpan(frags, VersionedOpens)
    /\ HasSpan(frags, {"OL"})
    /\ frags[1] = "TXT"
    /\ result.text # document

\* C11: without a key, decrypt_or_strip_content strips every document that holds a
\* span, a document whose only spans are legacy ones included: the result is
\* strip_encrypted_tags(document), each span replaced by its payload.
C11_NoKeyStripsLegacy ==
    (pc = "decrypt_or_strip_content" /\ private_key = NoKey /\ HasSpan(frags, AnyOpens))
    => /\ result.text = strip_encrypted_tags(document)
       /\ result.text = Stripped(frags)

(***************************************************************************)
(* What the contracts say of a key string, read off what it was made from. *)
(***************************************************************************)
\* the key string without the white space around it
Unpadded(d) == KeyText([d EXCEPT !.pad = "none"])

\* whether the key string is made of hex digits only
HexOnly(d) == d.kind \in {"hex", "hexrun"}

\* str.lower() of a string of hex digits
LowerCase(t) ==
    [k \in 1..Len(t) |-> IF t[k] >= CH_UPPER_A /\ t[k] <= CH_UPPER_Z THEN t[k] + 32 ELSE t[k]]

\* the invalid-key error for the key string
InvalidKeyError(d) == InvalidKey(Len(Unpadded(d)))

\* C12: parse_key returns a key of exactly 32 bytes or raises the invalid-key error,
\* never a value of another length: 64 hex digits (any case, white space around them
\* trimmed) give their hex decoding, a base64 string that decodes to exactly 32 bytes
\* gives those bytes, and every other input raises.
C12_ParseKey ==
    key_pc = "parse_key" =>
        /\ IF key_result.raised
           THEN key_result = InvalidKeyError(key_from)
           ELSE Len(key_result.key) = KEY_LENGTH
        /\ key_from.kind = "hex" => key_result = ParsedKey(KeyBytes[key_from.source])
        /\ key_from.kind = "hexrun" =>
              (key_result.raised <=> key_from.n # 2 * KEY_LENGTH)
        /\ key_from.kind = "base64" =>
              IF Len(KeyBytes[key_from.source]) = KEY_LENGTH
              THEN key_result = ParsedKey(KeyBytes[key_from.source])
              ELSE key_result.raised
        /\ key_from.kind = "base64_noisy" => key_result = ParsedKey(K1)
        /\ key_from.kind \in {"base64_unpadded", "base64_nonascii", "not_hex",
                              "hex_inner_space"} => key_result.raised

C12_Witness ==
    /\ key_pc = "parse_key"
    /\ key_from = KeyInput("base64", "K2", 0, "", "tabs")
    /\ key_result = ParsedKey(K2)

\* C13: the hex reading is tried first and only for trimmed inputs of exactly 64 hex
\* digits: such an input is decoded as hex, never as base64, and an input of hex
\* digits only whose length is not 64 is rejected with the invalid-key error, whatever
\* its length; the base64 fallback never accepts it.
C13_HexFirst ==
    (key_pc = "parse_key" /\ HexOnly(key_from)) =>
        IF Len(Unpadded(key_from)) = 2 * KEY_LENGTH
        THEN /\ ~key_result.raised
             /\ HexText(key_result.key, LOWER_HEX) = LowerCase(Unpadded(key_from))
        ELSE key_result = InvalidKeyError(key_from)

C13_Witness ==
    /\ key_pc = "parse_key"
    /\ key_from = KeyInput("hexrun", "none", 44, "mixed", "none")
    /\ key_result = InvalidKey(44)

(***************************************************************************)
(* What the contracts say of an environment and a .env file, read off what *)
(* they were made from: the key a value stands for ("K1", "K2"), "invalid" *)
(* for a value that is no key, "none" for no value or a blank one, and     *)
(* "skip" for a line of .env that sets no PRIVATE_KEY.                     *)
(***************************************************************************)
EnvironMeaning ==
    [unset |-> "none", empty |-> "none", blank |-> "none", hexK1 |-> "K1", b64K2 |-> "K2",
     short |-> "invalid", hex63 |-> "invalid"]

LineMeaning ==
    [comment |-> "skip", spaces |-> "skip", other |-> "skip", noequals |-> "skip",
     export |-> "skip", keyK2 |-> "K2", keyK1quoted |-> "K1", keyK1single |-> "K1",
     keymisquoted |-> "invalid", keybad |-> "invalid", keyblank |-> "none",
     keyquotedblank |-> "none"]

\* the .env entry: what the last line that sets PRIVATE_KEY says
DotenvMeaning(f) ==
    LET setting == {i \in 1..Len(f.lines) : LineMeaning[f.lines[i]] # "skip"}
    IN  IF setting = {} THEN "none"
        ELSE LineMeaning[f.lines[CHOOSE i \in setting : \A j \in setting : j <= i]]

\* the selected value: the environment's unless it is unset or blank
SelectedMeaning(e, f) == IF EnvironMeaning[e] # "none" THEN EnvironMeaning[e] ELSE DotenvMeaning(f)

\* C14: load_private_key uses the PRIVATE_KEY environment value whenever it is set
\* and not blank, and the .env entry only when it is unset or blank; a selected value
\* that is no valid key gives a warning and None, without raising (a valid .env
\* value does not replace an invalid environment value); no value in either source
\* gives None.
C14_LoadPrivateKey ==
    load_pc = "load_private_key" =>
        /\ ~loaded.raised
        /\ SelectedMeaning(environ_from, dotenv_from) \in {"K1", "K2"} =>
              /\ loaded.key = KeyBytes[SelectedMeaning(environ_from, dotenv_from)]
              /\ loaded.warnings = <<>>
        /\ SelectedMeaning(environ_from, dotenv_from) = "invalid" =>
              /\ loaded.key = NoKey
              /\ Len(loaded.warnings) = 1
              /\ loaded.warnings[1].text = "Invalid PRIVATE_KEY"
        /\ SelectedMeaning(environ_from, dotenv_from) = "none" =>
              loaded = Loaded(NoKey, <<>>)

C14_Witness ==
    /\ load_pc = "load_private_key"
    /\ environ_from = "short"
    /\ dotenv_from = [lines |-> <<"other", "keyK2">>, newline |-> "crlf"]
    /\ loaded.key = NoKey
    /\ Len(loaded.warnings) = 1

\* the version-1 payloads that are malformed: not base64, or shorter than a nonce
MalformedPayloads == {"B_BADB64", "B_SHORT"}

\* a document that is one version-1 span whose payload fails authentication
AuthFailureDocument == TextOf(<<"OV1", "B_TAMPERED", "CL">>)

\* C15: failure modes cannot be told apart from outside: decrypt_content_tags gives
\* for a version-1 span with a malformed payload what it gives, under the same key,
\* for a span that fails authentication: the span's own text as output and the same
\* warning text; no failure branch has an error string of its own.
C15_FailuresAlike ==
    (/\ pc = "decrypt_content_tags"
     /\ Len(frags) = 3
     /\ frags[1] = "OV1" /\ frags[2] \in MalformedPayloads /\ frags[3] = "CL")
    => /\ result.text = document
       /\ decrypt_content_tags(CRYPTO_AVAILABLE, private_key, AuthFailureDocument).text
             = AuthFailureDocument
       /\ result.warnings
             = decrypt_content_tags(CRYPTO_AVAILABLE, private_key, AuthFailureDocument).warnings

(***************************************************************************)
(* What the contracts say of a document with placeholders, read off the    *)
(* pieces it is made of.  A placeholder is a placeholder piece, or the     *)
(* piece "open" with the piece "close" right after it.                     *)
(***************************************************************************)
\* the name of the placeholder that starts with piece i, <<>> if none does
OccurrenceName(ps, i) ==
    IF ps[i] \in DOMAIN PlaceholderName THEN PlaceholderName[ps[i]]
    ELSE IF ps[i] = "open" /\ i < Len(ps) /\ ps[i + 1] = "close" THEN NAME
    ELSE <<>>

\* whether piece i is the '}' of a placeholder that piece i - 1 starts
ClosesOccurrence(ps, i) == ps[i] = "close" /\ i > 1 /\ ps[i - 1] = "open"

\* what piece i becomes: the value of its placeholder when env holds the name
ExpectedPiece(ps, env, i) ==
    IF OccurrenceName(ps, i) # <<>> /\ OccurrenceName(ps, i) \in DOMAIN env
    THEN env[OccurrenceName(ps, i)]
    ELSE IF ClosesOccurrence(ps, i) /\ NAME \in DOMAIN env THEN <<>>
    ELSE PieceText[ps[i]]

ExpectedText(ps, env) == Flatten([i \in 1..Len(ps) |-> ExpectedPiece(ps, env, i)])

\* the names of the placeholders that env does not hold, one for each occurrence,
\* in the order of the document
AbsentNames(ps, env) ==
    Flatten([i \in 1..Len(ps) |->
                IF OccurrenceName(ps, i) # <<>> /\ OccurrenceName(ps, i) \notin DOMAIN env
                THEN <<OccurrenceName(ps, i)>>
                ELSE <<>>])

\* the elements of q, each once, in the order of their first occurrence
FirstOccurrences(q) ==
    Flatten([k \in 1..Len(q) |->
                IF \E j \in 1..(k - 1) : q[j] = q[k] THEN <<>> ELSE <<q[k]>>])

\* C16: substitute_placeholders replaces every ${NAME} whose NAME is a key of env
\* by env[NAME], leaves every ${NAME} whose NAME is not in env as it is, and changes
\* no other character; a document without a placeholder comes back unchanged, with
\* an empty unresolved list.
C16_Substitution ==
    subst_pc = "substitute_placeholders" =>
        /\ substituted.text = ExpectedText(pieces, subst_env)
        /\ (\A i \in 1..Len(pieces) : OccurrenceName(pieces, i) = <<>>)
              => substituted = [text |-> template, unresolved |-> <<>>]

C16_Witness ==
    /\ subst_pc = "substitute_placeholders"
    /\ pieces = <<"dollarbrace", "pNAME", "pUNKNOWN">>
    /\ env_from = "nested"
    /\ substituted.text = <<CH_DOLLAR, CH_LBRACE>> \o Placeholder(UNKNOWN) \o Placeholder(UNKNOWN)

\* C17: the unresolved names of substitute_placeholders are an ordered set: each name
\* that occurs in the document and is absent from env is in it exactly once, in the
\* order of first occurrence, however often ${NAME} occurs; names in env are never
\* in it.
C17_UnresolvedOrderedSet ==
    subst_pc = "substitute_placeholders" =>
        substituted.unresolved = FirstOccurrences(AbsentNames(pieces, subst_env))

\* the first fragment that is not white space, Len(fs) + 1 if there is none
FirstSolid(fs) ==
    CHOOSE i \in 1..(Len(fs) + 1) :
        /\ i = Len(fs) + 1 \/ fs[i] # "WS"
        /\ \A k \in 1..(i - 1) : fs[k] = "WS"

\* the trimmed text starts with a versioned span
LeadsWithSpan(fs) == FirstSolid(fs) <= Len(fs) /\ StartsSpan(fs, FirstSolid(fs), VersionedOpens)

\* C18, as stated: decrypt_value returns its input unchanged, without raising and
\* without decoding anything, whenever the trimmed input does not match the
\* versioned-tag grammar (plain text, a legacy tag, an unterminated tag).
C18_NotASpan ==
    (pc = "decrypt_value" /\ ~LeadsWithSpan(frags))
    => result = Returned(document, <<"decrypt_value">>)

\* C18, amended: as C18_NotASpan, when the cryptography package is importable;
\* without it decrypt_value raises before it looks at its input.
C18_NotASpanWithLibrary ==
    (pc = "decrypt_value" /\ ~LeadsWithSpan(frags))
    => IF CRYPTO_AVAILABLE
       THEN result = Returned(document, <<"decrypt_value">>)
       ELSE result = Raised("cryptography library not available for decryption",
                            <<"decrypt_value">>)

C18_Witness ==
    /\ pc = "decrypt_value"
    /\ CRYPTO_AVAILABLE
    /\ frags = <<"WS", "OL", "TXT", "CL", "WS">>
    /\ result = Returned(document, <<"decrypt_value">>)

\* the operations of the run that were of kind op
Carried(op) == {k \in 1..Len(trace) : trace[k].op = op}

\* all of main's sections have returned
SyncDone == sync_pc = "done" /\ todo = <<>>

\* C19: with --dry-run a run of sync.py changes nothing of the filesystem: at
\* every point of the run (skills, commands, MCP, pruning) every path that
\* existed when it started still exists with the same content, and no other path
\* exists (no destination, temporary tree, backup or config file)
C19_DryRunChangesNothing == sync_args.dry_run => disk = disk_start

\* a whole dry run with --prune did every kind of call, on a home where a live run
\* would have pruned and overwritten
C19_Witness ==
    /\ SyncDone
    /\ sync_args.dry_run
    /\ \A op \in {"copy_skill", "copy_command", "sync_mcp_to_claude", "sync_mcp_to_codex"} :
          Carried(op) # {}
    /\ \E k \in Carried("prune_skills") :
          PrunableSkills(disk, trace[k].dest, {Text(<<"a", "l", "p", "h", "a">>), Text(<<"b", "e", "t", "a">>)}) # {}
    /\ \E k \in Carried("prune_commands") :
          PrunableCommands(disk, trace[k].dest, {Text(<<"d", "e", "p", "l", "o", "y">>)}) # {}
    /\ Exists(disk, CLAUDE_JSON_PATH)
    /\ ~Exists(disk, CLAUDE_JSON_BACKUP)

\* what a file with content c holds once its encrypted spans were resolved and
\* then, in the text this gave, the placeholders were substituted
ResolvedThenSubstituted(c) ==
    substitute_placeholders(
        IF has_encrypted_tags(c)
        THEN decrypt_or_strip_content(CRYPTO_AVAILABLE, c, private_key).text
        ELSE c,
        run_env).text

\* the copy of tree src that copy_skill put at dest holds, for each file both walks
\* read, the text resolved and then substituted
CopiedInOrder(src, dest) ==
    \A q \in ReadableTextFiles(disk_start, src) :
        /\ Exists(disk, Rebased(q, src, dest))
        /\ disk[Rebased(q, src, dest)].content = ResolvedThenSubstituted(disk_start[q].content)

\* C20: in copy_skill substitute_directory starts right after decrypt_directory
\* has finished on the same tree, and every file of a copied tree that both read
\* holds the source text with its spans resolved first and the placeholders of
\* the resulting text substituted next (so the text of a placeholder inside a
\* decrypted plaintext is substituted, and the text a substitution inserted is
\* not resolved)
C20_DecryptBeforeSubstitute ==
    /\ \A k \in Carried("substitute_directory") :
          k > 1 /\ trace[k - 1] = Done("decrypt_directory", trace[k].dest)
    /\ ~sync_args.dry_run =>
          \A k \in Carried("copy_skill") :
              CopiedInOrder(SKILLS_ROOT \o <<NameOf(trace[k].dest)>>, trace[k].dest)

\* a live run with the key copied skill alpha: the placeholder that was the
\* plaintext of the span has been substituted, and the span that the value of
\* GREETING is stands as it is
C20_Witness ==
    /\ SyncDone
    /\ ~sync_args.dry_run
    /\ CRYPTO_AVAILABLE
    /\ private_key = K1
    /\ Carried("decrypt_directory") # {}
    /\ Carried("substitute_directory") # {}
    /\ Exists(disk, CLAUDE_SKILLS_DIR \o <<Text(<<"a", "l", "p", "h", "a">>), SKILL_MD>>)
    /\ disk[CLAUDE_SKILLS_DIR \o <<Text(<<"a", "l", "p", "h", "a">>), SKILL_MD>>].content =
          FRONTMATTER_BOUNDARY \o Text(<<" ">>) \o WORLD \o Text(<<" ">>)
              \o encrypt_value(K1, NONCE_B, PLAIN_SECRET) \o Placeholder(UNKNOWN)

\* the calls made on the tree that were of kind op
Called(op) == {k \in 1..Len(walked) : walked[k].op = op}

\* the entries with files whose extension is outside the allow-list
OutsideAllowList == {"image", "makefile", "dotmd", "dirmd"}

\* C21: after any sequence of decrypt_directory, decrypt_file, substitute_directory
\* and substitute_file calls on a tree, every file whose extension, lower-cased, is
\* not one of .md, .txt, .yaml, .yml, .json, .py, .sh holds the content it had
\* before, spans and placeholders included
C21_OutsideAllowListUntouched ==
    /\ \A q \in WalkFiles(disk_start) :
          ~HasTextExtension(q) => q \in DOMAIN disk /\ disk[q] = disk_start[q]
    /\ \A k \in walk_from \cap OutsideAllowList :
          \A p \in DOMAIN WalkEntry[k] : disk[WALK_ROOT \o p] = WalkEntry[k][p]

\* both walks and a single-file call on the image went over a tree with an image
\* and a text file that hold the same span and placeholder: the text file changed
C21_Witness ==
    /\ walk_from = {"image", "upper"}
    /\ private_key = K1
    /\ CRYPTO_AVAILABLE
    /\ run_env = RunEnv["set"]
    /\ Called("decrypt_directory") # {}
    /\ Called("substitute_directory") # {}
    /\ \E k \in Called("decrypt_file") : walked[k].path \in {WALK_ROOT \o p : p \in DOMAIN WalkEntry["image"]}
    /\ disk[WALK_ROOT \o <<Text(<<"U", "P", "P", "E", "R", ".", "J", "S", "O", "N">>)>>].content
          = PLAIN_SECRET \o WORLD

\* the files of the tree that do not read as UTF-8
Unreadable(tree) == {q \in WalkFiles(tree) : ~tree[q].utf8}

\* a walk over the tree gives, for all but file q, what it gives over the tree
\* without q, and leaves q as it is
AsIfAbsent(with, without, tree, q) ==
    /\ with.tree[q] = tree[q]
    /\ Removed(with.tree, q) = without.tree

\* C22: a file that does not read as UTF-8 is skipped by decrypt_directory and
\* substitute_directory: it keeps its content through any sequence of calls, and
\* each walk leaves every other file, and returns the counts and the names not
\* resolved, as it does on the tree without that file
C22_UnreadableSkipped ==
    \A q \in Unreadable(disk_start) :
        /\ q \in DOMAIN disk
        /\ disk[q] = disk_start[q]
        /\ AsIfAbsent(decrypt_directory(disk, WALK_ROOT, CRYPTO_AVAILABLE, private_key),
                      decrypt_directory(Removed(disk, q), WALK_ROOT, CRYPTO_AVAILABLE,
                                        private_key),
                      disk, q)
        /\ decrypt_directory(disk, WALK_ROOT, CRYPTO_AVAILABLE, private_key).decrypted
              = decrypt_directory(Removed(disk, q), WALK_ROOT, CRYPTO_AVAILABLE,
                                  private_key).decrypted
        /\ decrypt_directory(disk, WALK_ROOT, CRYPTO_AVAILABLE, private_key).stripped
              = decrypt_directory(Removed(disk, q), WALK_ROOT, CRYPTO_AVAILABLE,
                                  private_key).stripped
        /\ AsIfAbsent(substitute_directory(disk, WALK_ROOT, run_env),
                      substitute_directory(Removed(disk, q), WALK_ROOT, run_env),
                      disk, q)
        /\ substitute_directory(disk, WALK_ROOT, run_env).unresolved
              = substitute_directory(Removed(disk, q), WALK_ROOT, run_env).unresolved

\* both walks went over a tree with a file that is no UTF-8 and holds a span and
\* two placeholders, and a text file: one file was decrypted, one name was not
\* resolved, and the text file holds the plaintext
C22_Witness ==
    /\ walk_from = {"binary", "span"}
    /\ private_key = K1
    /\ CRYPTO_AVAILABLE
    /\ run_env = RunEnv["empty"]
    /\ Len(walked) = 2
    /\ walked[1] = Call("decrypt_directory", WALK_ROOT, <<1, 0>>)
    /\ walked[2] = Call("substitute_directory", WALK_ROOT, {NAME})
    /\ \E q \in WalkFiles(disk) :
          disk[q] = TextFile(PLAIN_SECRET \o Placeholder(NAME))

\* C23, as stated: a text that is_encrypted accepts but that is no versioned span
\* from its start (the version is no number, or the payload holds a '<') makes
\* decrypt_value raise a decode error
C23_MalformedReported ==
    (/\ pc = "decrypt_value"
     /\ CRYPTO_AVAILABLE
     /\ is_encrypted(document)
     /\ ~MatchVersionedAt(Strip(document), 1).found)
    => result.raised

\* the files of the tree that decrypt_directory reads and that hold the marker of a
\* versioned span
FilesWithMarker(tree) ==
    {q \in WalkFiles(tree) :
        /\ HasTextExtension(q)
        /\ tree[q].utf8
        /\ has_encrypted_tags(tree[q].content)}

\* what decrypt_directory returns on a tree that was not walked before
FirstCounts == walked[1].returned

\* C24, as stated: decrypt_directory counts every file it reads that holds the
\* marker exactly once, in decrypted when the file was processed with a key and
\* in stripped otherwise, so that the two counts add up to the number of such
\* files
C24_EveryMarkedFileCounted ==
    (Len(walked) >= 1 /\ walked[1].op = "decrypt_directory")
    => FirstCounts =
          IF private_key # NoKey /\ CRYPTO_AVAILABLE
          THEN <<Cardinality(FilesWithMarker(disk_start)), 0>>
          ELSE <<0, Cardinality(FilesWithMarker(disk_start))>>

\* what the code counts: the files it wrote, those that decrypt_or_strip_content
\* changed
C24_ChangedFilesCounted ==
    (Len(walked) = 1 /\ walked[1].op = "decrypt_directory")
    => /\ FirstCounts[1] + FirstCounts[2]
             = Cardinality({q \in WalkFiles(disk_start) : disk[q] # disk_start[q]})
       /\ (private_key # NoKey /\ CRYPTO_AVAILABLE) => FirstCounts[2] = 0
       /\ (private_key = NoKey \/ ~CRYPTO_AVAILABLE) => FirstCounts[1] = 0

\* a prune_skills or prune_commands call is carried out
Pruning(op) == todo # <<>> /\ NextOp.op = op /\ todo' = Tail(todo)

\* the entries of directory p that the step removes
RemovedFrom(p) == {q \in Children(disk, p) : q \notin DOMAIN disk'}

\* the marker that copy_command writes for command file q
MarkerOfCommand(q) ==
    SubSeq(q, 1, Len(q) - 1) \o <<<<Ord(".")>> \o Stem(NameOf(q)) \o MARKER_FILE>>

\* the entry is the marker copy_command writes for a command of that name
IsMarkerOf(q, command_name) == NameOf(q) = <<Ord(".")>> \o command_name \o MARKER_FILE

\* prune_skills removes a directory only if it holds the marker file and its name
\* is not in keep
SkillsPrunedOnlyIfMarked ==
    [][Pruning("prune_skills") =>
          \A q \in RemovedFrom(NextOp.dest) :
              /\ Exists(disk, q \o <<MARKER_FILE>>)
              /\ NameOf(q) \notin NextOp.keep]_vars

\* prune_commands removes a command file only if its marker exists and its name
\* is not in keep, and a marker only if it is that of a command not in keep
CommandsPrunedOnlyIfMarked ==
    [][Pruning("prune_commands") =>
          \A q \in RemovedFrom(NextOp.dest) :
              \/ /\ Exists(disk, MarkerOfCommand(q))
                 /\ Stem(NameOf(q)) \notin NextOp.keep
              \/ \E k \in 1..Len(NameOf(q)) :
                     /\ SubSeq(NameOf(q), 2, k) \notin NextOp.keep
                     /\ IsMarkerOf(q, SubSeq(NameOf(q), 2, k))]_vars

\* a run given --only has no pruning call to carry out
NoPruningWithOnly ==
    [](sync_args.only # <<>> =>
          \A k \in 1..Len(todo) : todo[k].op \notin {"prune_skills", "prune_commands"})

\* C25, as stated: pruning removes an entry of the destination only if it carries
\* the marker file and its name is not in keep, so that an unmarked entry and a
\* marked entry whose name is in keep stay, and no pruning is done in a run given
\* --only
C25_PruneOnlyManagedAbsent ==
    SkillsPrunedOnlyIfMarked /\ CommandsPrunedOnlyIfMarked /\ NoPruningWithOnly

\* what holds of prune_skills: it removes nothing but directories that hold the
\* marker file and whose name is not in keep, and nothing on a dry run
C25_SkillsPrunedOnlyIfManaged ==
    [][Pruning("prune_skills") =>
          /\ \A q \in DOMAIN disk \ DOMAIN disk' :
                \E child \in Children(disk, NextOp.dest) :
                    /\ IsPrefix(child, q)
                    /\ Exists(disk, child \o <<MARKER_FILE>>)
                    /\ NameOf(child) \notin NextOp.keep
          /\ sync_args.dry_run => disk' = disk]_vars

\* the destinations copy_skill is given in a run: a skill of the library under one
\* of the two skills directories
SkillDests ==
    {root \o <<NameOf(iter_skill_dirs(disk_start)[k])>> :
        root \in {CLAUDE_SKILLS_DIR, CODEX_SKILLS_DIR},
        k \in 1..Len(iter_skill_dirs(disk_start))}

\* dest and all under it are as they were when the run started
PreviousVersion(dest) ==
    /\ Exists(disk_start, dest)
    /\ Under(disk, dest) = Under(disk_start, dest)
    /\ \A q \in Under(disk, dest) : disk[q] = disk_start[q]

\* dest holds the whole of skill src and nothing else: every entry of src is
\* there, every file both walks read holds its text resolved and substituted,
\* every other entry is as in src, and the marker file is written
CompleteNewTree(src, dest) ==
    /\ Under(disk, dest) =
          {Rebased(q, src, dest) : q \in Under(disk_start, src)} \cup {dest \o <<MARKER_FILE>>}
    /\ \A q \in Under(disk_start, src) \ {src \o <<MARKER_FILE>>} :
          disk[Rebased(q, src, dest)] =
              IF q \in ReadableTextFiles(disk_start, src)
              THEN TextFile(ResolvedThenSubstituted(disk_start[q].content))
              ELSE disk_start[q]
    /\ disk[dest \o <<MARKER_FILE>>] =
          TextFile(marker_contents(Text(<<"s", "k", "i", "l", "l">>), NameOf(src)))

C26_BetweenRemoveAndRename ==
    /\ CopyStep = "rename"
    /\ Exists(disk_start, NextOp.dest \o <<NameOf(NextOp.src)>>)
    /\ ~Exists(disk, NextOp.dest \o <<NameOf(NextOp.src)>>)

====
